---- MODULE Spec2Model ----
(***************************************************************************)
(* A model of the hops-gui controller (HopsGui::update), its asynchronous  *)
(* daemon calls, and the policy store it persists to.                      *)
(*                                                                         *)
(* Strings the program inspects (trims, splits, formats) are sequences of  *)
(* one-character strings; strings it only copies are TLA+ strings.         *)
(* Option<T> is a sequence of length at most one: None is <<>>, Some(x) is *)
(* <<x>>.  Vec indices are 0-based as in the source.                       *)
(***************************************************************************)
EXTENDS Integers, Sequences, FiniteSets, TLC

VARIABLES
    profiles,               \* HopsGui.profiles: Vec<Policy>
    selected_profile,       \* HopsGui.selected_profile: Option<usize>
    view_mode,              \* HopsGui.view_mode
    path_inputs,            \* HopsGui.path_inputs
    validation_errors,      \* HopsGui.validation_errors.fields
    run_history,            \* HopsGui.run_history: Vec<RunRecord>
    history_filter,         \* HopsGui.history_filter
    grpc_client,            \* HopsGui.grpc_client: Option<GrpcClient>
    daemon_status,          \* HopsGui.daemon_status
    loading_state,          \* HopsGui.loading_state
    memory_unit,            \* HopsGui.memory_unit
    memory_display_value,   \* HopsGui.memory_display_value
    tasks,                  \* the futures handed to Task::perform, still awaiting the daemon
    queue,                  \* outputs of resolved futures, not yet mapped and dispatched
    store,                  \* ~/.hops/profiles: file stem -> file content
    connect_attempts,       \* number of GrpcClient::connect() calls started so far
    last                    \* the step just taken: the Message handled by update()

ctl == <<profiles, selected_profile, view_mode, path_inputs, validation_errors,
         run_history, history_filter, grpc_client, daemon_status, loading_state,
         memory_unit, memory_display_value>>

vars == <<profiles, selected_profile, view_mode, path_inputs, validation_errors,
          run_history, history_filter, grpc_client, daemon_status, loading_state,
          memory_unit, memory_display_value, tasks, queue, store,
          connect_attempts, last>>

---------------------------------------------------------------------------
(* Bounds of the model *)

MaxProfiles == 2      \* profiles in the collection while daemon calls are explored
MaxManaged == 3       \* profiles in the collection while it is managed
MaxNameLen == 14      \* characters of a duplicated profile's name
MaxSandboxes == 2     \* sandboxes the daemon lists
MaxStore == 2         \* files in the profiles directory
MaxEdited == 1        \* profiles in the collection while memory limits are edited
MaxBytes == 2147483646        \* the largest byte count computed
MaxDisplayDenominator == 32   \* denominator of a displayed memory value, in lowest terms
MaxPaths == 2         \* paths held by all profiles together while paths are edited
MaxEdits == 2         \* fields set and paths added in all profiles together while fields are edited

---------------------------------------------------------------------------
(* Option, Result, maps *)

None == <<>>
Some(x) == <<x>>
IsSome(o) == o # <<>>
Unwrap(o) == o[1]

Ok(v) == [ok |-> TRUE, value |-> v]
Err(e) == [ok |-> FALSE, error |-> e]

EmptyMap == <<>>
MapInsert(m, k, v) == [x \in (DOMAIN m) \cup {k} |-> IF x = k THEN v ELSE m[x]]
MapRemove(m, k) == [x \in (DOMAIN m) \ {k} |-> m[x]]

\* Vec::get: the element at 0-based index i, if any
VecGet(v, i) == IF i >= 0 /\ i < Len(v) THEN Some(v[i + 1]) ELSE None
\* Vec::remove at 0-based index i (i < len)
VecRemove(v, i) == [k \in 1..(Len(v) - 1) |-> IF k <= i THEN v[k] ELSE v[k + 1]]
\* the vector with the element at 0-based index i replaced
VecSet(v, i, x) == [v EXCEPT ![i + 1] = x]

---------------------------------------------------------------------------
(* Strings as character sequences *)

Whitespace == {" ", "\t"}

Digits == <<"0", "1", "2", "3", "4", "5", "6", "7", "8", "9">>

RECURSIVE ToDecimal(_)
\* format!("{}", n) of an unsigned integer
ToDecimal(n) ==
    IF n < 10 THEN <<Digits[n + 1]>>
    ELSE ToDecimal(n \div 10) \o <<Digits[(n % 10) + 1]>>

\* a u32 as two 16-bit halves, value = hi * 2^16 + lo: the checker's own
\* integers are signed 32-bit and cannot hold the upper half of the range
U32(n) == [hi |-> n \div 65536, lo |-> n % 65536]

\* is_empty() without the trim
IsEmptyUntrimmed(s) == s = <<>>

\* str::trim().is_empty()
TrimIsEmpty(s) == \A k \in 1..Len(s) : s[k] \in Whitespace

RECURSIVE SplitWs(_, _, _)
SplitWs(s, cur, acc) ==
    IF s = <<>> THEN (IF cur = <<>> THEN acc ELSE Append(acc, cur))
    ELSE IF Head(s) \in Whitespace
         THEN SplitWs(Tail(s), <<>>, IF cur = <<>> THEN acc ELSE Append(acc, cur))
         ELSE SplitWs(Tail(s), Append(cur, Head(s)), acc)

\* str::split_whitespace().map(to_string).collect()
SplitWhitespace(s) == SplitWs(s, <<>>, <<>>)

ProfilePrefix == <<"p", "r", "o", "f", "i", "l", "e", "-">>
CopySuffix == <<"-", "c", "o", "p", "y">>
DefaultName == <<"d", "e", "f", "a", "u", "l", "t">>

---------------------------------------------------------------------------
(* Policy model *)

ResourceLimitsDefault == [cpus |-> None, memory_bytes |-> None, max_processes |-> None]

CapabilityGrantDefault ==
    [network |-> "Disabled",
     filesystem |-> {},
     allowed_paths |-> <<>>,
     denied_paths |-> <<>>,
     resource_limits |-> ResourceLimitsDefault]

SandboxConfigDefault ==
    [root_path |-> "/",
     mounts |-> <<>>,
     hostname |-> None,
     working_directory |-> "/",
     environment |-> EmptyMap]

PolicyDefault ==
    [name |-> DefaultName,
     version |-> "1.0.0",
     description |-> None,
     capabilities |-> CapabilityGrantDefault,
     sandbox |-> SandboxConfigDefault,
     metadata |-> EmptyMap]

PathInputsDefault == [allowed_input |-> <<>>, denied_input |-> <<>>]

---------------------------------------------------------------------------
(* Persistence: utils/config.rs *)

MapPutSome(m, k, o) == IF IsSome(o) THEN MapInsert(m, k, Unwrap(o)) ELSE m
MapGetOpt(m, k) == IF k \in DOMAIN m THEN Some(m[k]) ELSE None

NetworkToml ==
    [Disabled |-> "disabled", Outbound |-> "outbound",
     Loopback |-> "loopback", Full |-> "full"]
FilesystemToml == [Read |-> "read", Write |-> "write", Execute |-> "execute"]

\* a document that writes 0 for a limit that is not set
TomlOfLimitsZeroForNone(r) ==
    [k \in {"cpus", "memory_bytes", "max_processes"} |->
        CASE k = "cpus" -> IF IsSome(r.cpus) THEN Unwrap(r.cpus) ELSE U32(0)
          [] k = "memory_bytes" -> IF IsSome(r.memory_bytes) THEN Unwrap(r.memory_bytes) ELSE 0
          [] OTHER -> IF IsSome(r.max_processes) THEN Unwrap(r.max_processes) ELSE U32(0)]

\* the key/value document toml::to_string_pretty writes for a Policy:
\* `name` is #[serde(skip)], a None option is skip_serializing_if
TomlOfLimits(r) ==
    MapPutSome(MapPutSome(MapPutSome(EmptyMap, "cpus", r.cpus),
                          "memory_bytes", r.memory_bytes),
               "max_processes", r.max_processes)

TomlOfCapabilities(c) ==
    [network |-> NetworkToml[c.network],
     filesystem |-> {FilesystemToml[f] : f \in c.filesystem},
     allowed_paths |-> c.allowed_paths,
     denied_paths |-> c.denied_paths,
     resource_limits |-> TomlOfLimits(c.resource_limits)]

TomlOfSandbox(s) ==
    MapPutSome([k \in {"root_path", "mounts", "working_directory", "environment"} |->
                   CASE k = "root_path" -> s.root_path
                     [] k = "mounts" -> s.mounts
                     [] k = "working_directory" -> s.working_directory
                     [] OTHER -> s.environment],
               "hostname", s.hostname)

TomlOfPolicy(p) ==
    MapPutSome([k \in {"version", "capabilities", "sandbox", "metadata"} |->
                   CASE k = "version" -> p.version
                     [] k = "capabilities" -> TomlOfCapabilities(p.capabilities)
                     [] k = "sandbox" -> TomlOfSandbox(p.sandbox)
                     [] OTHER -> p.metadata],
               "description", p.description)

\* the content of a file: a policy document, or text toml::from_str rejects
WellFormed(doc) == [well_formed |-> TRUE, doc |-> doc]
Malformed == [well_formed |-> FALSE]

LimitsOfToml(d) ==
    [cpus |-> MapGetOpt(d, "cpus"),
     memory_bytes |-> MapGetOpt(d, "memory_bytes"),
     max_processes |-> MapGetOpt(d, "max_processes")]

CapabilitiesOfToml(d) ==
    [network |-> CHOOSE n \in DOMAIN NetworkToml : NetworkToml[n] = d.network,
     filesystem |-> {f \in DOMAIN FilesystemToml : FilesystemToml[f] \in d.filesystem},
     allowed_paths |-> d.allowed_paths,
     denied_paths |-> d.denied_paths,
     resource_limits |-> LimitsOfToml(d.resource_limits)]

SandboxOfToml(d) ==
    [root_path |-> d.root_path,
     mounts |-> d.mounts,
     hostname |-> MapGetOpt(d, "hostname"),
     working_directory |-> d.working_directory,
     environment |-> d.environment]

\* toml::from_str::<Policy> of a well-formed document; load_profiles then
\* overwrites the (skipped, hence empty) name with the file stem
PolicyOfToml(d, stem) ==
    [name |-> stem,
     version |-> d.version,
     description |-> MapGetOpt(d, "description"),
     capabilities |-> CapabilitiesOfToml(d.capabilities),
     sandbox |-> SandboxOfToml(d.sandbox),
     metadata |-> d.metadata]

\* config::save_profile(name, policy) with the file system answering io_ok
save_profile(st, name, policy, io_ok) ==
    IF io_ok
    THEN MapInsert(st, name, WellFormed(TomlOfPolicy(policy)))
    ELSE st

RECURSIVE DirOrders(_)
\* every order in which fs::read_dir may enumerate a set of entries
DirOrders(S) ==
    IF S = {} THEN {<<>>}
    ELSE UNION {{<<x>> \o p : p \in DirOrders(S \ {x})} : x \in S}

\* a load that gives up, with no profiles, when it meets a malformed file
load_profiles_all_or_nothing(st) ==
    LET good == {n \in DOMAIN st : st[n].well_formed}
    IN  IF good # DOMAIN st THEN {<<>>}
        ELSE {[k \in 1..Len(order) |-> PolicyOfToml(st[order[k]].doc, order[k])] :
                 order \in DirOrders(good)}

\* config::load_profiles(): one policy per well-formed file, in directory order
load_profiles(st) ==
    LET good == {n \in DOMAIN st : st[n].well_formed}
    IN  {[k \in 1..Len(order) |-> PolicyOfToml(st[order[k]].doc, order[k])] :
            order \in DirOrders(good)}

---------------------------------------------------------------------------
(* Memory units: app.rs, impl MemoryUnit *)

MemoryUnits == {"Bytes", "KB", "MB", "GB"}

Multiplier(unit) ==
    CASE unit = "Bytes" -> 1
      [] unit = "KB" -> 1024
      [] unit = "MB" -> 1024 * 1024
      [] unit = "GB" -> 1024 * 1024 * 1024

RECURSIVE FracDigits(_, _)
\* the decimal digits of r / m after the point, for m a power of two (finite)
FracDigits(r, m) ==
    IF r = 0 THEN <<>>
    ELSE <<Digits[((r * 10) \div m) + 1]>> \o FracDigits((r * 10) % m, m)

RECURSIVE LowestTerms(_, _)
\* the fraction r / m, m a power of two, in lowest terms
LowestTerms(r, m) ==
    IF r % 2 = 0 /\ m % 2 = 0 THEN LowestTerms(r \div 2, m \div 2) ELSE <<r, m>>

\* MemoryUnit::from_bytes(bytes).to_string(): the f64 bytes / multiplier as
\* Display prints it: no fraction part for a whole number, else the digits of
\* the quotient (the division is exact in f64, and Display prints the exact
\* digits of a quotient of at most 15 significant digits)
from_bytes_to_string(unit, bytes) ==
    LET m == Multiplier(unit)
        f == LowestTerms(bytes % m, m)
    IN  IF bytes % m = 0 THEN ToDecimal(bytes \div m)
        ELSE ToDecimal(bytes \div m) \o <<".">> \o FracDigits(f[1], f[2])

---------------------------------------------------------------------------
(* The daemon and the RPC client: grpc_client.rs *)

\* the one GrpcClient a successful connect() returns
Client == "GrpcClient"

SandboxIds == {"sb-1", "sb-2"}

ConnectionFailed(msg) == [variant |-> "ConnectionFailed", msg |-> msg]
RequestFailed(msg) == [variant |-> "RequestFailed", msg |-> msg]

\* impl Display for GrpcError
GrpcErrorToString(e) ==
    CASE e.variant = "ConnectionFailed" -> <<"Connection failed: ", e.msg>>
      [] e.variant = "RequestFailed" -> <<"Request failed: ", e.msg>>
      [] e.variant = "InvalidResponse" -> <<"Invalid response: ", e.msg>>

\* GrpcClient::connect(): the socket file is looked for first; the transport
\* connection is attempted only when it exists
connect(socket_exists, transport_ok) ==
    IF ~socket_exists
    THEN Err(ConnectionFailed("Daemon socket not found. Is hopsd running?"))
    ELSE IF ~transport_ok
         THEN Err(ConnectionFailed("Failed to connect"))
         ELSE Ok(Client)

\* a connect() that opens the transport connection before it looks for the socket
ConnectCallsTransportFirst(socket_exists) ==
    IF socket_exists
    THEN <<"connect_with_connector", "socket_path.exists">>
    ELSE <<"connect_with_connector">>

\* the calls GrpcClient::connect() makes on the system, in order: the
\* early return on a missing socket file comes before the endpoint is connected
ConnectCalls(socket_exists) ==
    IF socket_exists
    THEN <<"socket_path.exists", "connect_with_connector">>
    ELSE <<"socket_path.exists">>

\* what the daemon may answer to list_sandboxes: SandboxInfo records,
\* each sandbox listed once
SandboxLists ==
    {l \in UNION {[1..n -> SandboxIds] : n \in 0..MaxSandboxes} :
        \A a, b \in 1..Len(l) : a # b => l[a] # l[b]}

ListReplies ==
    {Ok([k \in 1..Len(l) |-> [sandbox_id |-> l[k]]]) : l \in SandboxLists}
    \cup {Err(RequestFailed("ListSandboxes RPC failed"))}

RunReplies ==
    {Ok([sandbox_id |-> "sb-1", pid |-> 1, success |-> TRUE, error |-> None]),
     Err(RequestFailed("RunSandbox RPC failed"))}

StopReplies ==
    {Ok([success |-> TRUE, error |-> None]),
     Err(RequestFailed("StopSandbox RPC failed"))}

\* Option::unwrap_or
UnwrapOr(o, default) == IF IsSome(o) THEN Unwrap(o) ELSE default

\* `x as i32` of a u32: the same 32 bits read as a signed number, so a value
\* from 2^31 up comes out 2^32 lower
U32AsI32(x) ==
    IF x.hi >= 32768 THEN (x.hi - 65536) * 65536 + x.lo ELSE x.hi * 65536 + x.lo

\* a memory string that rounds up to the next whole unit
format_memory_rounding_up(bytes) ==
    IF IsSome(bytes)
    THEN LET b == Unwrap(bytes)
             Up(m) == (b \div m) + (IF b % m = 0 THEN 0 ELSE 1)
         IN  IF b >= 1024 * 1024 * 1024
             THEN ToDecimal(Up(1024 * 1024 * 1024)) \o <<"G">>
             ELSE IF b >= 1024 * 1024
                  THEN ToDecimal(Up(1024 * 1024)) \o <<"M">>
                  ELSE IF b >= 1024
                       THEN ToDecimal(Up(1024)) \o <<"K">>
                       ELSE ToDecimal(b)
    ELSE <<"0">>

\* format_memory(bytes: Option<u64>)
format_memory(bytes) ==
    IF IsSome(bytes)
    THEN LET b == Unwrap(bytes)
         IN  IF b >= 1024 * 1024 * 1024
             THEN ToDecimal(b \div (1024 * 1024 * 1024)) \o <<"G">>
             ELSE IF b >= 1024 * 1024
                  THEN ToDecimal(b \div (1024 * 1024)) \o <<"M">>
                  ELSE IF b >= 1024
                       THEN ToDecimal(b \div 1024) \o <<"K">>
                       ELSE ToDecimal(b)
    ELSE <<"0">>

\* a wire path array filled from the denied paths when the flag is absent
WirePathsOrDenied(capabilities, flag) ==
    IF flag \in capabilities.filesystem
    THEN capabilities.allowed_paths
    ELSE capabilities.denied_paths

\* the wire path array of one flag: the loop over the capability set extends
\* it by the allowed paths when it meets the flag (a set holds it at most once)
WirePaths(capabilities, flag) ==
    IF flag \in capabilities.filesystem THEN capabilities.allowed_paths ELSE <<>>

\* convert_policy_to_proto(policy): the hops::Policy message
convert_policy_to_proto(policy) ==
    LET limits == policy.capabilities.resource_limits
    IN  [sandbox |-> Some([root |-> policy.sandbox.root_path]),
         capabilities |->
            Some([network |-> policy.capabilities.network,
                  filesystem |->
                     Some([read |-> WirePaths(policy.capabilities, "Read"),
                           write |-> WirePaths(policy.capabilities, "Write"),
                           execute |-> WirePaths(policy.capabilities, "Execute")])]),
         resources |->
            Some([cpus |-> U32AsI32(UnwrapOr(limits.cpus, U32(0))),
                  memory |-> format_memory(limits.memory_bytes),
                  max_processes |-> U32AsI32(UnwrapOr(limits.max_processes, U32(0)))])]

\* the RunRequest GrpcClient::run_sandbox sends
RunRequest(policy, command, working_dir) ==
    [command |-> command,
     policy_path |-> None,
     inline_policy |-> Some(convert_policy_to_proto(policy)),
     environment |-> EmptyMap,
     working_directory |-> working_dir,
     keep |-> FALSE,
     allocate_tty |-> FALSE]

---------------------------------------------------------------------------
(* Construction: HopsGui::new *)

Profile1 == ProfilePrefix \o ToDecimal(1)

\* the profiles directory found at start-up: empty, or holding the file a
\* previous session saved for a profile it created
InitStores ==
    {EmptyMap, save_profile(EmptyMap, Profile1, PolicyDefault, TRUE)}

Init ==
    /\ store \in InitStores
    /\ profiles \in load_profiles(store)
    /\ selected_profile = None
    /\ view_mode = "ProfileList"
    /\ path_inputs = PathInputsDefault
    /\ validation_errors = EmptyMap
    /\ run_history = <<>>
    /\ history_filter = ""
    /\ grpc_client = None
    /\ daemon_status = "Unknown"
    /\ loading_state = "Idle"
    /\ memory_unit = "MB"
    /\ memory_display_value = <<>>
    /\ tasks = <<[kind |-> "connect"]>>
    /\ queue = <<>>
    /\ connect_attempts = 1
    /\ last = [type |-> "new"]

---------------------------------------------------------------------------
(* HopsGui::update: profile management *)

rt == <<tasks, queue, store, connect_attempts>>

\* a selection that keeps the validation errors of the profile edited before
ProfileSelectedKeepsErrors(index) ==
    /\ selected_profile' = Some(index)
    /\ view_mode' = "ProfileEditor"
    /\ path_inputs' = PathInputsDefault
    /\ memory_display_value' =
          IF IsSome(VecGet(profiles, index))
          THEN LET bytes == Unwrap(VecGet(profiles, index)).capabilities.resource_limits.memory_bytes
               IN  IF IsSome(bytes)
                   THEN from_bytes_to_string(memory_unit, Unwrap(bytes))
                   ELSE <<>>
          ELSE memory_display_value
    /\ last' = [type |-> "ProfileSelected", index |-> index]
    /\ UNCHANGED <<profiles, validation_errors, run_history, history_filter, grpc_client,
                   daemon_status, loading_state, memory_unit, rt>>

\* a selection that does not open the editor
ProfileSelectedStaysInList(index) ==
    /\ selected_profile' = Some(index)
    /\ view_mode' = view_mode
    /\ path_inputs' = PathInputsDefault
    /\ validation_errors' = EmptyMap
    /\ memory_display_value' =
          IF IsSome(VecGet(profiles, index))
          THEN LET bytes == Unwrap(VecGet(profiles, index)).capabilities.resource_limits.memory_bytes
               IN  IF IsSome(bytes)
                   THEN from_bytes_to_string(memory_unit, Unwrap(bytes))
                   ELSE <<>>
          ELSE memory_display_value
    /\ last' = [type |-> "ProfileSelected", index |-> index]
    /\ UNCHANGED <<profiles, run_history, history_filter, grpc_client,
                   daemon_status, loading_state, memory_unit, rt>>

ProfileSelected(index) ==
    /\ selected_profile' = Some(index)
    /\ view_mode' = "ProfileEditor"
    /\ path_inputs' = PathInputsDefault
    /\ validation_errors' = EmptyMap
    /\ memory_display_value' =
          IF IsSome(VecGet(profiles, index))
          THEN LET bytes == Unwrap(VecGet(profiles, index)).capabilities.resource_limits.memory_bytes
               IN  IF IsSome(bytes)
                   THEN from_bytes_to_string(memory_unit, Unwrap(bytes))
                   ELSE <<>>
          ELSE memory_display_value
    /\ last' = [type |-> "ProfileSelected", index |-> index]
    /\ UNCHANGED <<profiles, run_history, history_filter, grpc_client,
                   daemon_status, loading_state, memory_unit, rt>>

\* format!("profile-{}", self.profiles.len() + 1)
\* the name numbered by the count, not the count plus one
NewProfileNameFromCount(count) == ProfilePrefix \o ToDecimal(count)

NewProfileName(count) == ProfilePrefix \o ToDecimal(count + 1)

CreateNewProfile ==
    /\ profiles' = Append(profiles, [PolicyDefault EXCEPT !.name = NewProfileName(Len(profiles))])
    /\ selected_profile' = Some(Len(profiles') - 1)
    /\ view_mode' = "ProfileEditor"
    /\ path_inputs' = PathInputsDefault
    /\ validation_errors' = EmptyMap
    /\ memory_display_value' = <<>>
    /\ last' = [type |-> "CreateNewProfile"]
    /\ UNCHANGED <<run_history, history_filter, grpc_client, daemon_status,
                   loading_state, memory_unit, rt>>

\* a deletion that forgets to shift a later selection
SelectionAfterDeleteNoShift(selected, index) ==
    IF IsSome(selected) /\ Unwrap(selected) = index THEN None ELSE selected

\* the selection after the profile at `index` is removed
SelectionAfterDelete(selected, index) ==
    IF IsSome(selected) /\ Unwrap(selected) = index THEN None
    ELSE IF IsSome(selected) /\ Unwrap(selected) > index THEN Some(Unwrap(selected) - 1)
    ELSE selected

\* a deletion that also removes the profile's file
DeleteProfileRemovesFile(index) ==
    /\ IF index < Len(profiles)
       THEN /\ profiles' = VecRemove(profiles, index)
            /\ selected_profile' = IF IsSome(selected_profile) /\ Unwrap(selected_profile) = index
                                   THEN None
                                   ELSE IF IsSome(selected_profile) /\ Unwrap(selected_profile) > index
                                        THEN Some(Unwrap(selected_profile) - 1)
                                        ELSE selected_profile
            /\ view_mode' = IF selected_profile = Some(index) THEN "ProfileList" ELSE view_mode
            /\ store' = [n \in DOMAIN store \ {profiles[index + 1].name} |-> store[n]]
       ELSE UNCHANGED <<profiles, selected_profile, view_mode, store>>
    /\ last' = [type |-> "DeleteProfile", index |-> index]
    /\ UNCHANGED <<path_inputs, validation_errors, run_history, history_filter,
                   grpc_client, daemon_status, loading_state, memory_unit,
                   memory_display_value, tasks, queue, connect_attempts>>

\* a deletion that leaves the selection as it was
DeleteProfileKeepsSelection(index) ==
    /\ IF index < Len(profiles)
       THEN /\ profiles' = VecRemove(profiles, index)
            /\ view_mode' = IF selected_profile = Some(index) THEN "ProfileList" ELSE view_mode
            /\ UNCHANGED selected_profile
       ELSE UNCHANGED <<profiles, selected_profile, view_mode>>
    /\ last' = [type |-> "DeleteProfile", index |-> index]
    /\ UNCHANGED <<path_inputs, validation_errors, run_history, history_filter,
                   grpc_client, daemon_status, loading_state, memory_unit,
                   memory_display_value, rt>>

DeleteProfile(index) ==
    /\ IF index < Len(profiles)
       THEN /\ profiles' = VecRemove(profiles, index)
            /\ selected_profile' = SelectionAfterDelete(selected_profile, index)
            /\ view_mode' = IF selected_profile = Some(index) THEN "ProfileList" ELSE view_mode
       ELSE UNCHANGED <<profiles, selected_profile, view_mode>>
    /\ last' = [type |-> "DeleteProfile", index |-> index]
    /\ UNCHANGED <<path_inputs, validation_errors, run_history, history_filter,
                   grpc_client, daemon_status, loading_state, memory_unit,
                   memory_display_value, rt>>

\* a duplication that moves the selection to the copy
DuplicateProfileSelectsCopy(index) ==
    /\ profiles' =
          IF IsSome(VecGet(profiles, index))
          THEN Append(profiles, [profiles[index + 1] EXCEPT !.name = @ \o CopySuffix])
          ELSE profiles
    /\ selected_profile' =
          IF IsSome(VecGet(profiles, index)) THEN Some(Len(profiles)) ELSE selected_profile
    /\ last' = [type |-> "DuplicateProfile", index |-> index]
    /\ UNCHANGED <<view_mode, path_inputs, validation_errors,
                   run_history, history_filter, grpc_client, daemon_status,
                   loading_state, memory_unit, memory_display_value, rt>>

DuplicateProfile(index) ==
    /\ profiles' =
          IF IsSome(VecGet(profiles, index))
          THEN Append(profiles, [profiles[index + 1] EXCEPT !.name = @ \o CopySuffix])
          ELSE profiles
    /\ last' = [type |-> "DuplicateProfile", index |-> index]
    /\ UNCHANGED <<selected_profile, view_mode, path_inputs, validation_errors,
                   run_history, history_filter, grpc_client, daemon_status,
                   loading_state, memory_unit, memory_display_value, rt>>

---------------------------------------------------------------------------
(* HopsGui::update: views and daemon calls *)

ViewModes == {"ProfileList", "ProfileEditor", "RunHistory"}

\* a take that leaves the client in the slot
TakeLeavesClient(slot) == slot

\* Option::take: what is left in the slot
Take(slot) == None

ListTask(client) == [kind |-> "list_sandboxes", client |-> client, include_stopped |-> TRUE]

\* a view switch that reconnects when the daemon is offline
SwitchViewReconnects(mode) ==
    /\ view_mode' = mode
    /\ IF mode = "ProfileList"
       THEN /\ selected_profile' = None
            /\ UNCHANGED <<loading_state, grpc_client, tasks, connect_attempts>>
       ELSE IF mode = "RunHistory" /\ IsSome(grpc_client)
            THEN /\ loading_state' = "LoadingHistory"
                 /\ grpc_client' = Take(grpc_client)
                 /\ tasks' = Append(tasks, ListTask(Unwrap(grpc_client)))
                 /\ UNCHANGED <<selected_profile, connect_attempts>>
            ELSE IF daemon_status = "Offline"
                 THEN /\ tasks' = Append(tasks, [kind |-> "connect"])
                      /\ connect_attempts' = connect_attempts + 1
                      /\ UNCHANGED <<selected_profile, loading_state, grpc_client>>
                 ELSE UNCHANGED <<selected_profile, loading_state, grpc_client, tasks,
                                  connect_attempts>>
    /\ last' = [type |-> "SwitchView", mode |-> mode]
    /\ UNCHANGED <<profiles, path_inputs, validation_errors, run_history,
                   history_filter, daemon_status, memory_unit,
                   memory_display_value, queue, store>>

\* a view switch that shows the history as loading whether or not it issues the call
SwitchViewShowsLoading(mode) ==
    /\ view_mode' = mode
    /\ IF mode = "ProfileList"
       THEN /\ selected_profile' = None
            /\ UNCHANGED <<loading_state, grpc_client, tasks>>
       ELSE IF mode = "RunHistory"
            THEN /\ loading_state' = "LoadingHistory"
                 /\ IF IsSome(grpc_client)
                    THEN /\ grpc_client' = Take(grpc_client)
                         /\ tasks' = Append(tasks, ListTask(Unwrap(grpc_client)))
                    ELSE UNCHANGED <<grpc_client, tasks>>
                 /\ UNCHANGED selected_profile
            ELSE UNCHANGED <<selected_profile, loading_state, grpc_client, tasks>>
    /\ last' = [type |-> "SwitchView", mode |-> mode]
    /\ UNCHANGED <<profiles, path_inputs, validation_errors, run_history,
                   history_filter, daemon_status, memory_unit,
                   memory_display_value, queue, store, connect_attempts>>

SwitchView(mode) ==
    /\ view_mode' = mode
    /\ IF mode = "ProfileList"
       THEN /\ selected_profile' = None
            /\ UNCHANGED <<loading_state, grpc_client, tasks>>
       ELSE IF mode = "RunHistory" /\ IsSome(grpc_client)
            THEN /\ loading_state' = "LoadingHistory"
                 /\ grpc_client' = Take(grpc_client)
                 /\ tasks' = Append(tasks, ListTask(Unwrap(grpc_client)))
                 /\ UNCHANGED selected_profile
            ELSE UNCHANGED <<selected_profile, loading_state, grpc_client, tasks>>
    /\ last' = [type |-> "SwitchView", mode |-> mode]
    /\ UNCHANGED <<profiles, path_inputs, validation_errors, run_history,
                   history_filter, daemon_status, memory_unit,
                   memory_display_value, queue, store, connect_attempts>>

\* a run request built from the default policy instead of the profile
RunTaskOfDefault(client, policy, command) ==
    [kind |-> "run_sandbox", client |-> client, policy |-> PolicyDefault,
     command |-> SplitWhitespace(command), working_dir |-> Some("/")]

RunTask(client, policy, command) ==
    [kind |-> "run_sandbox", client |-> client, policy |-> policy,
     command |-> SplitWhitespace(command), working_dir |-> Some("/")]

\* a run request that takes the client before it looks for the profile
RunSandboxTakesClientFirst(profile_idx, command) ==
    /\ IF IsSome(grpc_client)
       THEN /\ grpc_client' = Take(grpc_client)
            /\ IF IsSome(VecGet(profiles, profile_idx))
               THEN /\ loading_state' = "RunningSandbox"
                    /\ tasks' = Append(tasks, RunTask(Unwrap(grpc_client),
                                                      Unwrap(VecGet(profiles, profile_idx)), command))
               ELSE UNCHANGED <<loading_state, tasks>>
       ELSE UNCHANGED <<grpc_client, loading_state, tasks>>
    /\ last' = [type |-> "RunSandbox", profile_idx |-> profile_idx, command |-> command]
    /\ UNCHANGED <<profiles, selected_profile, view_mode, path_inputs,
                   validation_errors, run_history, history_filter, daemon_status,
                   memory_unit, memory_display_value, queue, store, connect_attempts>>

\* a run request that shows the loading indicator before it looks for the client
RunSandboxMarksLoading(profile_idx, command) ==
    /\ IF IsSome(VecGet(profiles, profile_idx))
       THEN /\ loading_state' = "RunningSandbox"
            /\ IF IsSome(grpc_client)
               THEN /\ grpc_client' = Take(grpc_client)
                    /\ tasks' = Append(tasks, RunTask(Unwrap(grpc_client),
                                                      Unwrap(VecGet(profiles, profile_idx)), command))
               ELSE UNCHANGED <<grpc_client, tasks>>
       ELSE UNCHANGED <<grpc_client, loading_state, tasks>>
    /\ last' = [type |-> "RunSandbox", profile_idx |-> profile_idx, command |-> command]
    /\ UNCHANGED <<profiles, selected_profile, view_mode, path_inputs,
                   validation_errors, run_history, history_filter, daemon_status,
                   memory_unit, memory_display_value, queue, store, connect_attempts>>

RunSandbox(profile_idx, command) ==
    /\ IF IsSome(VecGet(profiles, profile_idx)) /\ IsSome(grpc_client)
       THEN /\ grpc_client' = Take(grpc_client)
            /\ loading_state' = "RunningSandbox"
            /\ tasks' = Append(tasks, RunTask(Unwrap(grpc_client),
                                              Unwrap(VecGet(profiles, profile_idx)), command))
       ELSE UNCHANGED <<grpc_client, loading_state, tasks>>
    /\ last' = [type |-> "RunSandbox", profile_idx |-> profile_idx, command |-> command]
    /\ UNCHANGED <<profiles, selected_profile, view_mode, path_inputs,
                   validation_errors, run_history, history_filter, daemon_status,
                   memory_unit, memory_display_value, queue, store, connect_attempts>>

StopTask(client, sandbox_id) ==
    [kind |-> "stop_sandbox", client |-> client, sandbox_id |-> sandbox_id, force |-> FALSE]

\* a stop request that calls through a second handle and keeps the client
StopSandboxKeepsClient(sandbox_id) ==
    /\ IF IsSome(grpc_client)
       THEN tasks' = Append(tasks, StopTask(Unwrap(grpc_client), sandbox_id))
       ELSE UNCHANGED tasks
    /\ last' = [type |-> "StopSandbox", sandbox_id |-> sandbox_id]
    /\ UNCHANGED <<profiles, selected_profile, view_mode, path_inputs,
                   validation_errors, run_history, history_filter, daemon_status,
                   loading_state, memory_unit, memory_display_value, queue, store,
                   connect_attempts, grpc_client>>

StopSandbox(sandbox_id) ==
    /\ IF IsSome(grpc_client)
       THEN /\ grpc_client' = Take(grpc_client)
            /\ tasks' = Append(tasks, StopTask(Unwrap(grpc_client), sandbox_id))
       ELSE UNCHANGED <<grpc_client, tasks>>
    /\ last' = [type |-> "StopSandbox", sandbox_id |-> sandbox_id]
    /\ UNCHANGED <<profiles, selected_profile, view_mode, path_inputs,
                   validation_errors, run_history, history_filter, daemon_status,
                   loading_state, memory_unit, memory_display_value, queue, store,
                   connect_attempts>>

---------------------------------------------------------------------------
(* The async blocks of Task::perform: a future resolves *)

SeqRemove(q, i) == [k \in 1..(Len(q) - 1) |-> IF k < i THEN q[k] ELSE q[k + 1]]

\* new(): async { GrpcClient::connect().await }
ConnectResolves(socket_exists, transport_ok) ==
    \E i \in 1..Len(tasks) :
        /\ tasks[i].kind = "connect"
        /\ tasks' = SeqRemove(tasks, i)
        /\ queue' = Append(queue, [kind |-> "connect",
                                   result |-> connect(socket_exists, transport_ok)])
        /\ last' = [type |-> "resolved", kind |-> "connect",
                     socket_exists |-> socket_exists,
                     calls |-> ConnectCalls(socket_exists)]
        /\ UNCHANGED <<ctl, store, connect_attempts>>

\* async move { let result = client.<call>.await; (client, result) }
CallResolves(kind, reply) ==
    \E i \in 1..Len(tasks) :
        /\ tasks[i].kind = kind
        /\ tasks' = SeqRemove(tasks, i)
        /\ queue' = Append(queue, [kind |-> kind, client |-> tasks[i].client,
                                   result |-> reply])
        /\ last' = [type |-> "resolved", kind |-> kind]
        /\ UNCHANGED <<ctl, store, connect_attempts>>

ListSandboxesResolves(reply) == CallResolves("list_sandboxes", reply)
RunSandboxResolves(reply) == CallResolves("run_sandbox", reply)
StopSandboxResolves(reply) == CallResolves("stop_sandbox", reply)

---------------------------------------------------------------------------
(* HopsGui::update: completion messages *)

\* result.map_err(|e| e.to_string())
MapErrToString(r) == IF r.ok THEN r ELSE Err(GrpcErrorToString(r.error))

\* fn format_timestamp
format_timestamp(unix_seconds) == IF unix_seconds = 0 THEN "N/A" ELSE "timestamp"

\* the closure of SwitchView: one RunRecord per SandboxInfo
RunRecordOf(s) ==
    [id |-> s.sandbox_id,
     profile_name |-> "unknown",
     start_time |-> format_timestamp(0),
     duration |-> "unknown",
     exit_code |-> 0,
     denied_capabilities |-> <<>>]

\* the records translated last to first
RunRecordsOfReversed(sandboxes) ==
    [k \in 1..Len(sandboxes) |-> RunRecordOf(sandboxes[Len(sandboxes) + 1 - k])]

RunRecordsOf(sandboxes) == [k \in 1..Len(sandboxes) |-> RunRecordOf(sandboxes[k])]

\* the Message each Task::perform closure builds from its future's output
MessageOf(out) ==
    CASE out.kind = "connect" ->
            [type |-> "GrpcClientConnected",
             result |-> MapErrToString(out.result)]
      [] out.kind = "list_sandboxes" ->
            [type |-> "HistoryLoaded",
             result |-> MapErrToString(IF out.result.ok THEN Ok(RunRecordsOf(out.result.value))
                                       ELSE out.result),
             client |-> out.client]
      [] out.kind = "run_sandbox" ->
            LET SandboxIdOf(r) == r.sandbox_id
            IN  [type |-> "RunSandboxResult",
                 result |-> MapErrToString(IF out.result.ok THEN Ok(SandboxIdOf(out.result.value))
                                           ELSE out.result),
                 client |-> out.client]
      [] out.kind = "stop_sandbox" ->
            LET Unit(r) == <<>>
            IN  [type |-> "StopSandboxResult",
                 result |-> MapErrToString(IF out.result.ok THEN Ok(Unit(out.result.value))
                                           ELSE out.result),
                 client |-> out.client]

\* the next completion message, if the first resolved future is of this kind
Delivered(kind) == queue # <<>> /\ Head(queue).kind = kind

\* a connection event that connects again after a failure
GrpcClientConnectedRetries ==
    /\ Delivered("connect")
    /\ LET msg == MessageOf(Head(queue))
       IN  /\ IF msg.result.ok
              THEN /\ grpc_client' = Some(msg.result.value)
                   /\ daemon_status' = "Connected"
                   /\ UNCHANGED <<tasks, connect_attempts>>
              ELSE /\ daemon_status' = "Offline"
                   /\ tasks' = Append(tasks, [kind |-> "connect"])
                   /\ connect_attempts' = connect_attempts + 1
                   /\ UNCHANGED grpc_client
           /\ last' = msg
    /\ queue' = Tail(queue)
    /\ UNCHANGED <<profiles, selected_profile, view_mode, path_inputs,
                   validation_errors, run_history, history_filter, loading_state,
                   memory_unit, memory_display_value, store>>

GrpcClientConnected ==
    /\ Delivered("connect")
    /\ LET msg == MessageOf(Head(queue))
       IN  /\ IF msg.result.ok
              THEN /\ grpc_client' = Some(msg.result.value)
                   /\ daemon_status' = "Connected"
              ELSE /\ daemon_status' = "Offline"
                   /\ UNCHANGED grpc_client
           /\ last' = msg
    /\ queue' = Tail(queue)
    /\ UNCHANGED <<profiles, selected_profile, view_mode, path_inputs,
                   validation_errors, run_history, history_filter, loading_state,
                   memory_unit, memory_display_value, tasks, store, connect_attempts>>

\* a completion that clears the loading indicator only on success
RunSandboxResultIdleOnOk ==
    /\ Delivered("run_sandbox")
    /\ LET msg == MessageOf(Head(queue))
       IN  /\ grpc_client' = Some(msg.client)
           /\ loading_state' = IF msg.result.ok THEN "Idle" ELSE loading_state
           /\ last' = msg
    /\ queue' = Tail(queue)
    /\ UNCHANGED <<profiles, selected_profile, view_mode, path_inputs,
                   validation_errors, run_history, history_filter, daemon_status,
                   memory_unit, memory_display_value, tasks, store, connect_attempts>>

RunSandboxResult ==
    /\ Delivered("run_sandbox")
    /\ LET msg == MessageOf(Head(queue))
       IN  /\ grpc_client' = Some(msg.client)
           /\ loading_state' = "Idle"
           /\ last' = msg
    /\ queue' = Tail(queue)
    /\ UNCHANGED <<profiles, selected_profile, view_mode, path_inputs,
                   validation_errors, run_history, history_filter, daemon_status,
                   memory_unit, memory_display_value, tasks, store, connect_attempts>>

\* a completion that, once the client is back, issues the list call a view
\* switch asked for while the stop call was in flight
StopSandboxResultIssuesDropped ==
    /\ Delivered("stop_sandbox")
    /\ LET msg == MessageOf(Head(queue))
       IN  /\ IF view_mode = "RunHistory"
              THEN /\ grpc_client' = None
                   /\ tasks' = Append(tasks, ListTask(msg.client))
              ELSE /\ grpc_client' = Some(msg.client)
                   /\ UNCHANGED tasks
           /\ last' = msg
    /\ queue' = Tail(queue)
    /\ UNCHANGED <<profiles, selected_profile, view_mode, path_inputs,
                   validation_errors, run_history, history_filter, daemon_status,
                   loading_state, memory_unit, memory_display_value, store,
                   connect_attempts>>

StopSandboxResult ==
    /\ Delivered("stop_sandbox")
    /\ LET msg == MessageOf(Head(queue))
       IN  /\ grpc_client' = Some(msg.client)
           /\ last' = msg
    /\ queue' = Tail(queue)
    /\ UNCHANGED <<profiles, selected_profile, view_mode, path_inputs,
                   validation_errors, run_history, history_filter, daemon_status,
                   loading_state, memory_unit, memory_display_value, tasks, store,
                   connect_attempts>>

\* a completion that hands the client back only on success
HistoryLoadedKeepsClientOnErr ==
    /\ Delivered("list_sandboxes")
    /\ LET msg == MessageOf(Head(queue))
       IN  /\ grpc_client' = IF msg.result.ok THEN Some(msg.client) ELSE grpc_client
           /\ loading_state' = "Idle"
           /\ run_history' = IF msg.result.ok THEN msg.result.value ELSE run_history
           /\ last' = msg
    /\ queue' = Tail(queue)
    /\ UNCHANGED <<profiles, selected_profile, view_mode, path_inputs,
                   validation_errors, history_filter, daemon_status, memory_unit,
                   memory_display_value, tasks, store, connect_attempts>>

HistoryLoaded ==
    /\ Delivered("list_sandboxes")
    /\ LET msg == MessageOf(Head(queue))
       IN  /\ grpc_client' = Some(msg.client)
           /\ loading_state' = "Idle"
           /\ run_history' = IF msg.result.ok THEN msg.result.value ELSE run_history
           /\ last' = msg
    /\ queue' = Tail(queue)
    /\ UNCHANGED <<profiles, selected_profile, view_mode, path_inputs,
                   validation_errors, history_filter, daemon_status, memory_unit,
                   memory_display_value, tasks, store, connect_attempts>>

---------------------------------------------------------------------------
(* HopsGui::update: editing the selected profile *)

\* self.selected_profile.and_then(|idx| self.profiles.get(idx))
SelectedProfile ==
    IF IsSome(selected_profile) THEN VecGet(profiles, Unwrap(selected_profile)) ELSE None

\* the collection with its first profile replaced by policy
SetFirst(policy) == VecSet(profiles, 0, policy)

\* the collection with the selected profile replaced by policy
SetSelected(policy) == VecSet(profiles, Unwrap(selected_profile), policy)

NetworkCapabilities == {"Disabled", "Outbound", "Loopback", "Full"}
FilesystemCapabilities == {"Read", "Write", "Execute"}
PathTypes == {"Allowed", "Denied"}

ProfilesLoaded(loaded) ==
    /\ profiles' = loaded
    /\ last' = [type |-> "ProfilesLoaded", profiles |-> loaded]
    /\ UNCHANGED <<selected_profile, view_mode, path_inputs, validation_errors,
                   run_history, history_filter, grpc_client, daemon_status,
                   loading_state, memory_unit, memory_display_value, rt>>

NetworkCapabilityChanged(capability) ==
    /\ LET Set(p) == [p EXCEPT !.capabilities.network = capability]
       IN  profiles' = IF IsSome(SelectedProfile)
                       THEN SetSelected(Set(Unwrap(SelectedProfile)))
                       ELSE profiles
    /\ last' = [type |-> "NetworkCapabilityChanged", capability |-> capability]
    /\ UNCHANGED <<selected_profile, view_mode, path_inputs, validation_errors,
                   run_history, history_filter, grpc_client, daemon_status,
                   loading_state, memory_unit, memory_display_value, rt>>

FilesystemCapabilityToggled(capability) ==
    /\ LET Toggle(p) ==
              [p EXCEPT !.capabilities.filesystem =
                  IF capability \in @ THEN @ \ {capability} ELSE @ \cup {capability}]
       IN  profiles' = IF IsSome(SelectedProfile)
                       THEN SetSelected(Toggle(Unwrap(SelectedProfile)))
                       ELSE profiles
    /\ last' = [type |-> "FilesystemCapabilityToggled", capability |-> capability]
    /\ UNCHANGED <<selected_profile, view_mode, path_inputs, validation_errors,
                   run_history, history_filter, grpc_client, daemon_status,
                   loading_state, memory_unit, memory_display_value, rt>>

PathInputChanged(path_type, value) ==
    /\ path_inputs' =
          IF path_type = "Allowed"
          THEN [path_inputs EXCEPT !.allowed_input = value]
          ELSE [path_inputs EXCEPT !.denied_input = value]
    /\ last' = [type |-> "PathInputChanged", path_type |-> path_type, value |-> value]
    /\ UNCHANGED <<profiles, selected_profile, view_mode, validation_errors,
                   run_history, history_filter, grpc_client, daemon_status,
                   loading_state, memory_unit, memory_display_value, rt>>

\* format!("{:?}_path", path_type)
PathFieldName(path_type) == IF path_type = "Allowed" THEN "Allowed_path" ELSE "Denied_path"

\* an AddPath that empties the input buffer whatever the input was
AddPathClearsInput(path_type) ==
    LET path == IF path_type = "Allowed"
                THEN path_inputs.allowed_input
                ELSE path_inputs.denied_input
        field_name == PathFieldName(path_type)
        Push(p) == IF path_type = "Allowed"
                   THEN [p EXCEPT !.capabilities.allowed_paths = Append(@, path)]
                   ELSE [p EXCEPT !.capabilities.denied_paths = Append(@, path)]
    IN  /\ IF TrimIsEmpty(path)
           THEN /\ validation_errors' =
                      MapInsert(validation_errors, field_name, "Path cannot be empty")
                /\ path_inputs' =
                      IF path_type = "Allowed"
                      THEN [path_inputs EXCEPT !.allowed_input = <<>>]
                      ELSE [path_inputs EXCEPT !.denied_input = <<>>]
                /\ UNCHANGED profiles
           ELSE /\ validation_errors' = MapRemove(validation_errors, field_name)
                /\ profiles' = IF IsSome(SelectedProfile)
                       THEN SetSelected(Push(Unwrap(SelectedProfile)))
                       ELSE profiles
                /\ path_inputs' =
                      IF ~IsSome(SelectedProfile) THEN path_inputs
                      ELSE IF path_type = "Allowed"
                           THEN [path_inputs EXCEPT !.allowed_input = <<>>]
                           ELSE [path_inputs EXCEPT !.denied_input = <<>>]
        /\ last' = [type |-> "AddPath", path_type |-> path_type]
        /\ UNCHANGED <<selected_profile, view_mode, run_history, history_filter,
                       grpc_client, daemon_status, loading_state, memory_unit,
                       memory_display_value, rt>>

\* an AddPath that puts the new path in front of the list
AddPathInFront(path_type) ==
    LET path == IF path_type = "Allowed"
                THEN path_inputs.allowed_input
                ELSE path_inputs.denied_input
        field_name == PathFieldName(path_type)
        Push(p) == IF path_type = "Allowed"
                   THEN [p EXCEPT !.capabilities.allowed_paths = <<path>> \o @]
                   ELSE [p EXCEPT !.capabilities.denied_paths = <<path>> \o @]
    IN  /\ IF TrimIsEmpty(path)
           THEN /\ validation_errors' =
                      MapInsert(validation_errors, field_name, "Path cannot be empty")
                /\ UNCHANGED <<profiles, path_inputs>>
           ELSE /\ validation_errors' = MapRemove(validation_errors, field_name)
                /\ profiles' = IF IsSome(SelectedProfile)
                       THEN SetSelected(Push(Unwrap(SelectedProfile)))
                       ELSE profiles
                /\ path_inputs' =
                      IF ~IsSome(SelectedProfile) THEN path_inputs
                      ELSE IF path_type = "Allowed"
                           THEN [path_inputs EXCEPT !.allowed_input = <<>>]
                           ELSE [path_inputs EXCEPT !.denied_input = <<>>]
        /\ last' = [type |-> "AddPath", path_type |-> path_type]
        /\ UNCHANGED <<selected_profile, view_mode, run_history, history_filter,
                       grpc_client, daemon_status, loading_state, memory_unit,
                       memory_display_value, rt>>

AddPath(path_type) ==
    LET path == IF path_type = "Allowed"
                THEN path_inputs.allowed_input
                ELSE path_inputs.denied_input
        field_name == PathFieldName(path_type)
        Push(p) == IF path_type = "Allowed"
                   THEN [p EXCEPT !.capabilities.allowed_paths = Append(@, path)]
                   ELSE [p EXCEPT !.capabilities.denied_paths = Append(@, path)]
    IN  /\ IF TrimIsEmpty(path)
           THEN /\ validation_errors' =
                      MapInsert(validation_errors, field_name, "Path cannot be empty")
                /\ UNCHANGED <<profiles, path_inputs>>
           ELSE /\ validation_errors' = MapRemove(validation_errors, field_name)
                /\ profiles' = IF IsSome(SelectedProfile)
                       THEN SetSelected(Push(Unwrap(SelectedProfile)))
                       ELSE profiles
                /\ path_inputs' =
                      IF ~IsSome(SelectedProfile) THEN path_inputs
                      ELSE IF path_type = "Allowed"
                           THEN [path_inputs EXCEPT !.allowed_input = <<>>]
                           ELSE [path_inputs EXCEPT !.denied_input = <<>>]
        /\ last' = [type |-> "AddPath", path_type |-> path_type]
        /\ UNCHANGED <<selected_profile, view_mode, run_history, history_filter,
                       grpc_client, daemon_status, loading_state, memory_unit,
                       memory_display_value, rt>>

RemovePath(path_type, index) ==
    /\ LET Remove(p) ==
              IF path_type = "Allowed"
              THEN IF index < Len(p.capabilities.allowed_paths)
                   THEN [p EXCEPT !.capabilities.allowed_paths = VecRemove(@, index)]
                   ELSE p
              ELSE IF index < Len(p.capabilities.denied_paths)
                   THEN [p EXCEPT !.capabilities.denied_paths = VecRemove(@, index)]
                   ELSE p
       IN  profiles' = IF IsSome(SelectedProfile)
                       THEN SetSelected(Remove(Unwrap(SelectedProfile)))
                       ELSE profiles
    /\ last' = [type |-> "RemovePath", path_type |-> path_type, index |-> index]
    /\ UNCHANGED <<selected_profile, view_mode, path_inputs, validation_errors,
                   run_history, history_filter, grpc_client, daemon_status,
                   loading_state, memory_unit, memory_display_value, rt>>

\* `f as u32` of the f32 num/den (den > 0): toward zero, negatives to 0
FloatAsU32(num, den) == IF num < 0 THEN U32(0) ELSE U32(num \div den)

\* the slider's f32 is the fraction cpus[1] / cpus[2]
CpuChanged(cpus) ==
    /\ LET Set(p) == [p EXCEPT !.capabilities.resource_limits.cpus =
                                  Some(FloatAsU32(cpus[1], cpus[2]))]
       IN  profiles' = IF IsSome(SelectedProfile)
                       THEN SetSelected(Set(Unwrap(SelectedProfile)))
                       ELSE profiles
    /\ last' = [type |-> "CpuChanged", cpus |-> cpus]
    /\ UNCHANGED <<selected_profile, view_mode, path_inputs, validation_errors,
                   run_history, history_filter, grpc_client, daemon_status,
                   loading_state, memory_unit, memory_display_value, rt>>

RECURSIVE DecimalValue(_)
DecimalValue(d) ==
    IF d = <<>> THEN 0
    ELSE 10 * DecimalValue(SubSeq(d, 1, Len(d) - 1))
         + (CHOOSE v \in 0..9 : Digits[v + 1] = d[Len(d)])

RECURSIVE StripZeros(_)
StripZeros(d) == IF d # <<>> /\ Head(d) = "0" THEN StripZeros(Tail(d)) ELSE d

\* u32::MAX in decimal
U32MaxDigits == <<"4", "2", "9", "4", "9", "6", "7", "2", "9", "5">>

RECURSIVE DigitsGreater(_, _)
\* a > b for digit strings of equal length
DigitsGreater(a, b) ==
    /\ a # <<>>
    /\ \/ DecimalValue(<<Head(a)>>) > DecimalValue(<<Head(b)>>)
       \/ Head(a) = Head(b) /\ DigitsGreater(Tail(a), Tail(b))

RECURSIVE U32OfDigits(_)
\* the u32 a digit string denotes (at most u32::MAX), digit by digit
U32OfDigits(d) ==
    IF d = <<>> THEN U32(0)
    ELSE LET front == U32OfDigits(SubSeq(d, 1, Len(d) - 1))
             low == 10 * front.lo + DecimalValue(<<d[Len(d)]>>)
         IN  [hi |-> 10 * front.hi + low \div 65536, lo |-> low % 65536]

\* str::parse::<u32>(): an optional '+', then one or more decimal digits whose
\* value is at most u32::MAX
ParseU32(s) ==
    LET body == IF s # <<>> /\ Head(s) = "+" THEN Tail(s) ELSE s
        significant == StripZeros(body)
    IN  IF body = <<>> \/ \E k \in 1..Len(body) : body[k] \notin {Digits[v] : v \in 1..10}
        THEN None
        ELSE IF \/ Len(significant) > Len(U32MaxDigits)
                \/ /\ Len(significant) = Len(U32MaxDigits)
                   /\ DigitsGreater(significant, U32MaxDigits)
        THEN None
        ELSE Some(U32OfDigits(body))

\* a validation that resets the limit when the input does not parse
MaxProcessesChangedResetsOnError(value) ==
    /\ IF IsSome(SelectedProfile)
       THEN IF IsSome(ParseU32(value))
            THEN /\ LET Set(p) == [p EXCEPT !.capabilities.resource_limits.max_processes =
                                               ParseU32(value)]
                    IN  profiles' = SetSelected(Set(Unwrap(SelectedProfile)))
                 /\ validation_errors' = MapRemove(validation_errors, "max_processes")
            ELSE /\ validation_errors' =
                       MapInsert(validation_errors, "max_processes", "Must be a positive number")
                 /\ LET Set(p) == [p EXCEPT !.capabilities.resource_limits.max_processes = None]
                    IN  profiles' = SetSelected(Set(Unwrap(SelectedProfile)))
       ELSE UNCHANGED <<profiles, validation_errors>>
    /\ last' = [type |-> "MaxProcessesChanged", value |-> value]
    /\ UNCHANGED <<selected_profile, view_mode, path_inputs, run_history,
                   history_filter, grpc_client, daemon_status, loading_state,
                   memory_unit, memory_display_value, rt>>

MaxProcessesChanged(value) ==
    /\ IF IsSome(SelectedProfile)
       THEN IF IsSome(ParseU32(value))
            THEN /\ LET Set(p) == [p EXCEPT !.capabilities.resource_limits.max_processes =
                                               ParseU32(value)]
                    IN  profiles' = IF IsSome(SelectedProfile)
                       THEN SetSelected(Set(Unwrap(SelectedProfile)))
                       ELSE profiles
                 /\ validation_errors' = MapRemove(validation_errors, "max_processes")
            ELSE /\ validation_errors' =
                       MapInsert(validation_errors, "max_processes", "Must be a positive number")
                 /\ UNCHANGED profiles
       ELSE UNCHANGED <<profiles, validation_errors>>
    /\ last' = [type |-> "MaxProcessesChanged", value |-> value]
    /\ UNCHANGED <<selected_profile, view_mode, path_inputs, run_history,
                   history_filter, grpc_client, daemon_status, loading_state,
                   memory_unit, memory_display_value, rt>>

IsDigit(c) == c \in {Digits[v] : v \in 1..10}

RECURSIVE Pow10(_)
Pow10(n) == IF n = 0 THEN 1 ELSE 10 * Pow10(n - 1)

\* str::parse::<f64>() on inputs made of digits, a sign, a point and characters
\* that are none of these: an optional sign, then digits with at most one
\* point and at least one digit.  The value is (-1)^neg * num / den.
parse_f64(s) ==
    LET body == IF s # <<>> /\ Head(s) \in {"+", "-"} THEN Tail(s) ELSE s
        points == {k \in 1..Len(body) : body[k] = "."}
        point == IF points = {} THEN Len(body) + 1 ELSE CHOOSE k \in points : TRUE
        whole == SubSeq(body, 1, point - 1)
        frac == SubSeq(body, point + 1, Len(body))
    IN  IF \/ Cardinality(points) > 1
           \/ \E k \in 1..Len(body) : ~IsDigit(body[k]) /\ body[k] # "."
           \/ Len(whole) + Len(frac) = 0
        THEN None
        ELSE Some([neg |-> s # <<>> /\ Head(s) = "-",
                   num |-> DecimalValue(whole \o frac),
                   den |-> Pow10(Len(frac))])

\* how many times to_bytes multiplies by 1024.0
UnitPower(unit) ==
    CASE unit = "Bytes" -> 0
      [] unit = "KB" -> 1
      [] unit = "MB" -> 2
      [] unit = "GB" -> 3

RECURSIVE Times1000(_, _, _, _)
\* the whole part of (q + r / den) * 1000^n: decimal units
Times1000(q, r, den, n) ==
    IF n = 0 THEN q
    ELSE Times1000(q * 1000 + (r * 1000) \div den, (r * 1000) % den, den, n - 1)

RECURSIVE Times1024(_, _, _, _)
\* the whole part of (q + r / den) * 1024^n; each multiplication is exact in f64
Times1024(q, r, den, n) ==
    IF n = 0 THEN q
    ELSE Times1024(q * 1024 + (r * 1024) \div den, (r * 1024) % den, den, n - 1)

\* a conversion that rounds the value to a whole number before scaling it
to_bytes_rounding(unit, v) ==
    IF v.neg THEN 0
    ELSE Times1024((2 * v.num + v.den) \div (2 * v.den), 0, 1, UnitPower(unit))

\* MemoryUnit::to_bytes: (value * 1024.0 * ..) as u64, a cast that drops the
\* fraction and turns a negative value into 0
to_bytes(unit, v) ==
    IF v.neg THEN 0
    ELSE Times1024(v.num \div v.den, v.num % v.den, v.den, UnitPower(unit))

\* a validation that unsets the limit when the input does not parse
MemoryBytesChangedClearsOnError(value) ==
    /\ memory_display_value' = value
    /\ IF IsSome(SelectedProfile)
       THEN IF IsSome(parse_f64(value))
            THEN /\ LET Set(p) == [p EXCEPT !.capabilities.resource_limits.memory_bytes =
                                               Some(to_bytes(memory_unit, Unwrap(parse_f64(value))))]
                    IN  profiles' = SetSelected(Set(Unwrap(SelectedProfile)))
                 /\ validation_errors' = MapRemove(validation_errors, "memory_bytes")
            ELSE /\ LET Set(p) == [p EXCEPT !.capabilities.resource_limits.memory_bytes = None]
                    IN  profiles' = SetSelected(Set(Unwrap(SelectedProfile)))
                 /\ validation_errors' =
                       IF value = <<>>
                       THEN MapRemove(validation_errors, "memory_bytes")
                       ELSE MapInsert(validation_errors, "memory_bytes", "Must be a number")
       ELSE UNCHANGED <<profiles, validation_errors>>
    /\ last' = [type |-> "MemoryBytesChanged", value |-> value]
    /\ UNCHANGED <<selected_profile, view_mode, path_inputs, run_history,
                   history_filter, grpc_client, daemon_status, loading_state,
                   memory_unit, rt>>

MemoryBytesChanged(value) ==
    /\ memory_display_value' = value
    /\ IF IsSome(SelectedProfile)
       THEN IF IsSome(parse_f64(value))
            THEN /\ LET Set(p) == [p EXCEPT !.capabilities.resource_limits.memory_bytes =
                                               Some(to_bytes(memory_unit, Unwrap(parse_f64(value))))]
                    IN  profiles' = SetSelected(Set(Unwrap(SelectedProfile)))
                 /\ validation_errors' = MapRemove(validation_errors, "memory_bytes")
            ELSE IF value = <<>>
            THEN /\ LET Set(p) == [p EXCEPT !.capabilities.resource_limits.memory_bytes = None]
                    IN  profiles' = SetSelected(Set(Unwrap(SelectedProfile)))
                 /\ validation_errors' = MapRemove(validation_errors, "memory_bytes")
            ELSE /\ validation_errors' =
                       MapInsert(validation_errors, "memory_bytes", "Must be a number")
                 /\ UNCHANGED profiles
       ELSE UNCHANGED <<profiles, validation_errors>>
    /\ last' = [type |-> "MemoryBytesChanged", value |-> value]
    /\ UNCHANGED <<selected_profile, view_mode, path_inputs, run_history,
                   history_filter, grpc_client, daemon_status, loading_state,
                   memory_unit, rt>>

MemoryUnitChanged(unit) ==
    /\ memory_unit' = unit
    /\ memory_display_value' =
          IF IsSome(SelectedProfile)
             /\ IsSome(Unwrap(SelectedProfile).capabilities.resource_limits.memory_bytes)
          THEN from_bytes_to_string(unit,
                   Unwrap(Unwrap(SelectedProfile).capabilities.resource_limits.memory_bytes))
          ELSE memory_display_value
    /\ last' = [type |-> "MemoryUnitChanged", unit |-> unit]
    /\ UNCHANGED <<profiles, selected_profile, view_mode, path_inputs,
                   validation_errors, run_history, history_filter, grpc_client,
                   daemon_status, loading_state, rt>>

\* a rename that leaves an earlier "name" error in place
NameChangedKeepsError(name) ==
    /\ IF IsSome(SelectedProfile)
       THEN IF TrimIsEmpty(name)
            THEN /\ validation_errors' =
                       MapInsert(validation_errors, "name", "Name cannot be empty")
                 /\ UNCHANGED profiles
            ELSE /\ UNCHANGED validation_errors
                 /\ LET Set(p) == [p EXCEPT !.name = name]
                    IN  profiles' = SetSelected(Set(Unwrap(SelectedProfile)))
       ELSE UNCHANGED <<profiles, validation_errors>>
    /\ last' = [type |-> "NameChanged", name |-> name]
    /\ UNCHANGED <<selected_profile, view_mode, path_inputs, run_history,
                   history_filter, grpc_client, daemon_status, loading_state,
                   memory_unit, memory_display_value, rt>>

NameChanged(name) ==
    /\ IF IsSome(SelectedProfile)
       THEN IF TrimIsEmpty(name)
            THEN /\ validation_errors' =
                       MapInsert(validation_errors, "name", "Name cannot be empty")
                 /\ UNCHANGED profiles
            ELSE /\ validation_errors' = MapRemove(validation_errors, "name")
                 /\ LET Set(p) == [p EXCEPT !.name = name]
                    IN  profiles' = IF IsSome(SelectedProfile)
                       THEN SetSelected(Set(Unwrap(SelectedProfile)))
                       ELSE profiles
       ELSE UNCHANGED <<profiles, validation_errors>>
    /\ last' = [type |-> "NameChanged", name |-> name]
    /\ UNCHANGED <<selected_profile, view_mode, path_inputs, run_history,
                   history_filter, grpc_client, daemon_status, loading_state,
                   memory_unit, memory_display_value, rt>>

\* if self.validation_errors.fields.is_empty()
\* a save that does not look at the validation errors
SaveAllowedAlways == TRUE

SaveAllowed == validation_errors = EmptyMap

\* io_ok: whether the profiles directory and the file can be written
SaveProfile(io_ok) ==
    /\ store' =
          IF SaveAllowed /\ IsSome(SelectedProfile)
          THEN save_profile(store, Unwrap(SelectedProfile).name, Unwrap(SelectedProfile), io_ok)
          ELSE store
    /\ last' = [type |-> "SaveProfile"]
    /\ UNCHANGED <<ctl, tasks, queue, connect_attempts>>

HistoryFilterChanged(filter) ==
    /\ history_filter' = filter
    /\ last' = [type |-> "HistoryFilterChanged", filter |-> filter]
    /\ UNCHANGED <<profiles, selected_profile, view_mode, path_inputs,
                   validation_errors, run_history, grpc_client, daemon_status,
                   loading_state, memory_unit, memory_display_value, rt>>

---------------------------------------------------------------------------
(* The controller with its daemon calls and profile management *)

\* what keeps the explored collections finite
RoomFor(max) == Len(profiles) < max
NameFits(index) ==
    IsSome(VecGet(profiles, index)) =>
        Len(profiles[index + 1].name) + Len(CopySuffix) <= MaxNameLen
FileFits ==
    IsSome(SelectedProfile) =>
        \/ Unwrap(SelectedProfile).name \in DOMAIN store
        \/ Cardinality(DOMAIN store) < MaxStore

\* the indices a caller may pass: those of the collection and one past its end
Indices == 0..Len(profiles)

Commands == {<<"a">>, <<" ", "a", " ", " ", "b", "\t">>}

Next ==
    \/ \E index \in 0..(Len(profiles) - 1) : ProfileSelected(index)
    \/ RoomFor(MaxProfiles) /\ CreateNewProfile
    \/ \E index \in Indices : DeleteProfile(index)
    \/ \E mode \in ViewModes : SwitchView(mode)
    \/ \E profile_idx \in Indices, command \in Commands : RunSandbox(profile_idx, command)
    \/ \E sandbox_id \in SandboxIds : StopSandbox(sandbox_id)
    \/ \E socket_exists, transport_ok \in BOOLEAN : ConnectResolves(socket_exists, transport_ok)
    \/ \E reply \in ListReplies : ListSandboxesResolves(reply)
    \/ \E reply \in RunReplies : RunSandboxResolves(reply)
    \/ \E reply \in StopReplies : StopSandboxResolves(reply)
    \/ GrpcClientConnected
    \/ RunSandboxResult
    \/ StopSandboxResult
    \/ HistoryLoaded

Spec == Init /\ [][Next]_vars

---------------------------------------------------------------------------
(* The controller while profiles are edited and saved *)

NameInputs == {<<" ", "\t">>, <<"a">>}
ProcessInputs == {<<"4">>, <<"-", "1">>}

NextEdit ==
    \/ \E index \in 0..(Len(profiles) - 1) : ProfileSelected(index)
    \/ RoomFor(MaxProfiles) /\ CreateNewProfile
    \/ \E name \in NameInputs : NameChanged(name)
    \/ \E value \in ProcessInputs : MaxProcessesChanged(value)
    \/ \E io_ok \in BOOLEAN : FileFits /\ SaveProfile(io_ok)
    \/ SwitchView("ProfileList")

SpecEdit == Init /\ [][NextEdit]_vars

---------------------------------------------------------------------------
(* The controller while the collection is managed *)

NextProfiles ==
    \/ \E index \in 0..(Len(profiles) - 1) : ProfileSelected(index)
    \/ RoomFor(MaxManaged) /\ CreateNewProfile
    \/ \E index \in Indices : DeleteProfile(index)
    \/ \E index \in Indices : RoomFor(MaxManaged) /\ NameFits(index) /\ DuplicateProfile(index)
    \/ \E mode \in ViewModes : SwitchView(mode)

SpecProfiles == Init /\ [][NextProfiles]_vars

---------------------------------------------------------------------------
(* Ownership of the RPC client *)


HoldsClient(x) == x.kind # "connect" \/ x.result.ok
IsDaemonCall(x) == x.kind # "connect"
CountCalls(q) == Cardinality({k \in 1..Len(q) : IsDaemonCall(q[k])})
CountHolders(q) == Cardinality({k \in 1..Len(q) : HoldsClient(q[k])})

\* how many places hold the GrpcClient: the controller's slot, a future
\* awaiting the daemon, a resolved future's output awaiting dispatch
Owners ==
    (IF IsSome(grpc_client) THEN 1 ELSE 0) + CountCalls(tasks) + CountHolders(queue)

\* daemon calls (list, run, stop) issued and not yet completed
CallsInFlight == CountCalls(tasks) + CountCalls(queue)

\* connect() has returned a client: delivered to the controller, or about to be
ClientCreated ==
    \/ daemon_status = "Connected"
    \/ \E k \in 1..Len(queue) : queue[k].kind = "connect" /\ queue[k].result.ok

\* C1: once connect() has returned a client, the client has exactly one owner,
\* the controller's slot or a single in-flight call, and before that none;
\* at most one daemon call is in flight, and none while the slot holds the client
C1_SingleOwner ==
    /\ Owners = (IF ClientCreated THEN 1 ELSE 0)
    /\ CallsInFlight <= 1
    /\ IsSome(grpc_client) => CallsInFlight = 0 /\ grpc_client = Some(Client)
    /\ daemon_status = "Connected" /\ ~IsSome(grpc_client) => CallsInFlight = 1

C1_Witness ==
    /\ ~IsSome(grpc_client)
    /\ Len(tasks) = 1 /\ tasks[1].kind = "run_sandbox"
    /\ last.type = "StopSandbox"

---------------------------------------------------------------------------
(* Creating, deleting and saving profiles *)

NextStore ==
    \/ \E index \in Indices : IsSome(VecGet(profiles, index)) /\ ProfileSelected(index)
    \/ RoomFor(MaxManaged) /\ CreateNewProfile
    \/ \E index \in Indices : DeleteProfile(index)
    \/ \E io_ok \in BOOLEAN : FileFits /\ SaveProfile(io_ok)

SpecStore == Init /\ [][NextStore]_vars

---------------------------------------------------------------------------
(* Filling in the editor's form *)

PathValues == {<<>>, <<"/", "a">>}
FormNames == {<<>>, <<" ", "\t">>, <<"a">>, <<" ", "b">>}
FormProcesses ==
    {<<>>, <<"4">>, <<"-", "1">>,
     <<"9", "9", "9", "9", "9", "9", "9", "9", "9", "9", "9">>}

NextForm ==
    \/ \E index \in Indices : IsSome(VecGet(profiles, index)) /\ ProfileSelected(index)
    \/ RoomFor(MaxProfiles) /\ CreateNewProfile
    \/ \E name \in FormNames : NameChanged(name)
    \/ \E value \in FormProcesses : MaxProcessesChanged(value)
    \/ \E path_type \in PathTypes, value \in PathValues : PathInputChanged(path_type, value)

SpecForm == Init /\ [][NextForm]_vars

---------------------------------------------------------------------------
(* Naming profiles *)

NextNames ==
    \/ \E index \in Indices : IsSome(VecGet(profiles, index)) /\ ProfileSelected(index)
    \/ RoomFor(MaxProfiles) /\ CreateNewProfile
    \/ \E index \in Indices :
          RoomFor(MaxProfiles) /\ NameFits(index) /\ DuplicateProfile(index)
    \/ \E name \in NameInputs : NameChanged(name)
    \/ \E io_ok \in BOOLEAN : FileFits /\ SaveProfile(io_ok)

SpecNames == Init /\ [][NextNames]_vars

---------------------------------------------------------------------------
(* Editing the memory limit *)

MemoryInputs ==
    {<<>>, <<"5", "1", "2">>, <<"1", ".", "5">>, <<"1">>, <<"-", "1">>, <<"x">>}

\* the byte count an input converts to is within MaxBytes
BytesFit(value, unit) ==
    LET v == parse_f64(value)
    IN  IsSome(v) =>
           (Unwrap(v).num \div Unwrap(v).den)
               + (IF Unwrap(v).num % Unwrap(v).den = 0 THEN 0 ELSE 1)
             <= MaxBytes \div Multiplier(unit)

\* the memory limit of the profile at `index`, shown in `unit`, has a short
\* decimal expansion
DisplayFits(index, unit) ==
    LET p == VecGet(profiles, index)
        m == Multiplier(unit)
    IN  (IsSome(p) /\ IsSome(Unwrap(p).capabilities.resource_limits.memory_bytes)) =>
           LowestTerms(Unwrap(Unwrap(p).capabilities.resource_limits.memory_bytes) % m, m)[2]
              <= MaxDisplayDenominator

NextLimits ==
    \/ \E index \in Indices :
          /\ IsSome(VecGet(profiles, index))
          /\ DisplayFits(index, memory_unit)
          /\ ProfileSelected(index)
    \/ RoomFor(MaxEdited) /\ CreateNewProfile
    \/ \E value \in MemoryInputs : BytesFit(value, memory_unit) /\ MemoryBytesChanged(value)
    \/ \E unit \in MemoryUnits :
          /\ IsSome(selected_profile) => DisplayFits(Unwrap(selected_profile), unit)
          /\ MemoryUnitChanged(unit)
    \/ SwitchView("ProfileList")

SpecLimits == Init /\ [][NextLimits]_vars

---------------------------------------------------------------------------
(* Editing the path lists *)

PathTexts == {<<" ">>, <<"/", "a">>, <<"/", "b", " ">>}

RECURSIVE TotalPaths(_)
\* the number of paths the profiles hold, allowed and denied
TotalPaths(ps) ==
    IF ps = <<>> THEN 0
    ELSE Len(Head(ps).capabilities.allowed_paths)
           + Len(Head(ps).capabilities.denied_paths) + TotalPaths(Tail(ps))

PathsFit == TotalPaths(profiles) < MaxPaths

NextPaths ==
    \/ \E index \in Indices : IsSome(VecGet(profiles, index)) /\ ProfileSelected(index)
    \/ RoomFor(MaxEdited) /\ CreateNewProfile
    \/ \E path_type \in PathTypes, value \in PathTexts : PathInputChanged(path_type, value)
    \/ \E path_type \in PathTypes : PathsFit /\ AddPath(path_type)
    \/ \E path_type \in PathTypes, index \in 0..MaxPaths : RemovePath(path_type, index)

SpecPaths == Init /\ [][NextPaths]_vars

---------------------------------------------------------------------------
(* Running a sandbox under an edited profile: one profile is edited while
   its runs are in flight *)

PathOf == [Allowed |-> <<"/", "a">>, Denied |-> <<"/", "d">>]
RunCommand == <<"a">>

NextWire ==
    \/ \E index \in Indices : IsSome(VecGet(profiles, index)) /\ ProfileSelected(index)
    \/ profiles = <<>> /\ CreateNewProfile
    \/ \E capability \in FilesystemCapabilities : FilesystemCapabilityToggled(capability)
    \/ \E path_type \in PathTypes : PathInputChanged(path_type, PathOf[path_type])
    \/ \E path_type \in PathTypes : PathsFit /\ AddPath(path_type)
    \/ \E socket_exists, transport_ok \in BOOLEAN : ConnectResolves(socket_exists, transport_ok)
    \/ GrpcClientConnected
    \/ \E profile_idx \in Indices :
          IsSome(VecGet(profiles, profile_idx)) /\ RunSandbox(profile_idx, RunCommand)
    \/ \E reply \in RunReplies : RunSandboxResolves(reply)
    \/ RunSandboxResult

SpecWire == Init /\ [][NextWire]_vars

WireMemoryInputs ==
    {<<"1", "0", "2", "3">>, <<"1">>, <<"1", ".", "5">>,
     <<"1", "0", "4", "8", "5", "7", "7">>}

NextResources ==
    \/ \E index \in Indices :
          /\ IsSome(VecGet(profiles, index))
          /\ DisplayFits(index, memory_unit)
          /\ ProfileSelected(index)
    \/ RoomFor(MaxEdited) /\ CreateNewProfile
    \/ \E value \in WireMemoryInputs :
          BytesFit(value, memory_unit) /\ MemoryBytesChanged(value)
    \/ \E unit \in MemoryUnits :
          /\ IsSome(selected_profile) => DisplayFits(Unwrap(selected_profile), unit)
          /\ MemoryUnitChanged(unit)
    \/ \E socket_exists, transport_ok \in BOOLEAN : ConnectResolves(socket_exists, transport_ok)
    \/ GrpcClientConnected
    \/ \E profile_idx \in Indices :
          IsSome(VecGet(profiles, profile_idx)) /\ RunSandbox(profile_idx, RunCommand)
    \/ \E reply \in RunReplies : RunSandboxResolves(reply)
    \/ RunSandboxResult

SpecResources == Init /\ [][NextResources]_vars

---------------------------------------------------------------------------
(* Saving profiles and starting again on what was saved *)

\* a file in the profiles directory that is not a policy document
OtherStem == <<"x">>

\* a policy an earlier session granted capabilities to
GrantedPolicy ==
    [PolicyDefault EXCEPT !.capabilities.network = "Outbound",
                          !.capabilities.filesystem = {"Read"}]

\* the profiles directory found at start-up: as in InitStores or with the
\* file of an edited policy, and possibly a file that toml::from_str rejects
FoundStores ==
    LET saved == InitStores \cup {save_profile(EmptyMap, Profile1, GrantedPolicy, TRUE)}
    IN  saved \cup {MapInsert(st, OtherStem, Malformed) : st \in saved}

InitFound ==
    /\ store \in FoundStores
    /\ profiles \in load_profiles(store)
    /\ selected_profile = None
    /\ view_mode = "ProfileList"
    /\ path_inputs = PathInputsDefault
    /\ validation_errors = EmptyMap
    /\ run_history = <<>>
    /\ history_filter = ""
    /\ grpc_client = None
    /\ daemon_status = "Unknown"
    /\ loading_state = "Idle"
    /\ memory_unit = "MB"
    /\ memory_display_value = <<>>
    /\ tasks = <<[kind |-> "connect"]>>
    /\ queue = <<>>
    /\ connect_attempts = 1
    /\ last = [type |-> "new"]

\* the program is closed and started again: HopsGui::new on the directory as
\* the last session left it
Relaunch ==
    /\ profiles' \in load_profiles(store)
    /\ selected_profile' = None
    /\ view_mode' = "ProfileList"
    /\ path_inputs' = PathInputsDefault
    /\ validation_errors' = EmptyMap
    /\ run_history' = <<>>
    /\ history_filter' = ""
    /\ grpc_client' = None
    /\ daemon_status' = "Unknown"
    /\ loading_state' = "Idle"
    /\ memory_unit' = "MB"
    /\ memory_display_value' = <<>>
    /\ tasks' = <<[kind |-> "connect"]>>
    /\ queue' = <<>>
    /\ connect_attempts' = 1
    /\ last' = [type |-> "new"]
    /\ UNCHANGED store

\* the number of well-formed files is within what the collection may hold
StoreFits(max) ==
    IsSome(SelectedProfile) =>
        \/ Unwrap(SelectedProfile).name \in DOMAIN store
        \/ Cardinality({n \in DOMAIN store : store[n].well_formed}) < max

NextPersist ==
    \/ \E index \in Indices :
          /\ IsSome(VecGet(profiles, index))
          /\ DisplayFits(index, memory_unit)
          /\ ProfileSelected(index)
    \/ RoomFor(MaxEdited) /\ CreateNewProfile
    \/ CpuChanged(<<2, 1>>)
    \/ MaxProcessesChanged(<<"4">>)
    \/ BytesFit(<<"1">>, memory_unit) /\ MemoryBytesChanged(<<"1">>)
    \/ \E io_ok \in BOOLEAN : StoreFits(MaxEdited) /\ SaveProfile(io_ok)
    \/ Relaunch

SpecPersist == InitFound /\ [][NextPersist]_vars

---------------------------------------------------------------------------
(* Editing the fields of one profile among several *)

NewName == <<"a">>

\* how far a profile is from a newly created one: fields set, paths added
Edits(p) ==
    (IF p.name = NewName THEN 1 ELSE 0)
    + (IF p.capabilities.network # "Disabled" THEN 1 ELSE 0)
    + Cardinality(p.capabilities.filesystem)
    + Len(p.capabilities.allowed_paths) + Len(p.capabilities.denied_paths)
    + Len(p.capabilities.resource_limits.cpus)
    + Len(p.capabilities.resource_limits.memory_bytes)
    + Len(p.capabilities.resource_limits.max_processes)

RECURSIVE TotalEdits(_)
TotalEdits(ps) == IF ps = <<>> THEN 0 ELSE Edits(Head(ps)) + TotalEdits(Tail(ps))

\* path inputs typed and not yet added count as edits
EditsFit ==
    TotalEdits(profiles)
      + (IF path_inputs.allowed_input # <<>> THEN 1 ELSE 0)
      + (IF path_inputs.denied_input # <<>> THEN 1 ELSE 0) < MaxEdits

NextFields ==
    \/ \E index \in Indices :
          /\ IsSome(VecGet(profiles, index))
          /\ DisplayFits(index, memory_unit)
          /\ ProfileSelected(index)
    \/ RoomFor(MaxProfiles) /\ CreateNewProfile
    \/ SwitchView("ProfileList")
    \/ EditsFit /\ NetworkCapabilityChanged("Full")
    \/ EditsFit /\ FilesystemCapabilityToggled("Read")
    \/ \E path_type \in PathTypes :
          EditsFit /\ PathInputChanged(path_type, PathOf[path_type])
    \/ \E path_type \in PathTypes : AddPath(path_type)
    \/ \E path_type \in PathTypes : RemovePath(path_type, 0)
    \/ EditsFit /\ CpuChanged(<<2, 1>>)
    \/ EditsFit /\ BytesFit(<<"1">>, memory_unit) /\ MemoryBytesChanged(<<"1">>)
    \/ EditsFit /\ MaxProcessesChanged(<<"4">>)
    \/ EditsFit /\ NameChanged(NewName)

SpecFields == Init /\ [][NextFields]_vars

---------------------------------------------------------------------------
(* Runs of a profile whose CPU and process limits are set *)

\* process limits up to u32::MAX and one past it
WireProcessInputs ==
    {<<"4">>,
     <<"2", "1", "4", "7", "4", "8", "3", "6", "4", "7">>,
     <<"2", "1", "4", "7", "4", "8", "3", "6", "4", "8">>,
     U32MaxDigits,
     <<"4", "2", "9", "4", "9", "6", "7", "2", "9", "6">>}

NextCounts ==
    \/ \E index \in Indices : IsSome(VecGet(profiles, index)) /\ ProfileSelected(index)
    \/ profiles = <<>> /\ CreateNewProfile
    \/ CpuChanged(<<2, 1>>)
    \/ \E value \in WireProcessInputs : MaxProcessesChanged(value)
    \/ \E socket_exists, transport_ok \in BOOLEAN : ConnectResolves(socket_exists, transport_ok)
    \/ GrpcClientConnected
    \/ \E profile_idx \in Indices :
          IsSome(VecGet(profiles, profile_idx)) /\ RunSandbox(profile_idx, RunCommand)
    \/ \E reply \in RunReplies : RunSandboxResolves(reply)
    \/ RunSandboxResult

SpecCounts == Init /\ [][NextCounts]_vars

---------------------------------------------------------------------------
(* Profiles edited and deleted while their runs are in flight *)

NextFlight ==
    \/ \E index \in Indices : IsSome(VecGet(profiles, index)) /\ ProfileSelected(index)
    \/ RoomFor(MaxProfiles) /\ CreateNewProfile
    \/ \E index \in Indices : DeleteProfile(index)
    \/ EditsFit /\ NetworkCapabilityChanged("Full")
    \/ \E socket_exists, transport_ok \in BOOLEAN : ConnectResolves(socket_exists, transport_ok)
    \/ GrpcClientConnected
    \/ \E profile_idx \in Indices :
          IsSome(VecGet(profiles, profile_idx)) /\ RunSandbox(profile_idx, RunCommand)
    \/ \E reply \in RunReplies : RunSandboxResolves(reply)
    \/ RunSandboxResult

SpecFlight == Init /\ [][NextFlight]_vars

---------------------------------------------------------------------------
(* Saved files while the collection changes *)

NextSnapshots ==
    \/ \E index \in Indices : IsSome(VecGet(profiles, index)) /\ ProfileSelected(index)
    \/ profiles = <<>> /\ CreateNewProfile
    \/ \E index \in Indices : DeleteProfile(index)
    \/ \E index \in Indices :
          RoomFor(MaxProfiles) /\ NameFits(index) /\ DuplicateProfile(index)
    \/ EditsFit /\ NameChanged(NewName)
    \/ EditsFit /\ MaxProcessesChanged(<<"4">>)
    \/ \E io_ok \in BOOLEAN : FileFits /\ SaveProfile(io_ok)

SpecSnapshots == Init /\ [][NextSnapshots]_vars

---------------------------------------------------------------------------
(* Events that find a call in flight *)

\* the events that ask for a daemon call
CallTriggering(msg) ==
    \/ msg.type \in {"RunSandbox", "StopSandbox"}
    \/ msg = [type |-> "SwitchView", mode |-> "RunHistory"]

\* C2 as stated: a call-triggering event dispatched while a call is in flight
\* issues no call and leaves the whole controller state unchanged
C2_Original ==
    [][(CallsInFlight > 0 /\ CallTriggering(last')) =>
           UNCHANGED <<ctl, tasks, queue, store, connect_attempts>>]_vars

\* C2: a call-triggering event dispatched while a call is in flight issues no
\* call; RunSandbox and StopSandbox leave the whole controller state unchanged,
\* SwitchView(RunHistory) sets the view mode to RunHistory and changes nothing else
C2_DroppedWhileInFlight ==
    [][(CallsInFlight > 0 /\ CallTriggering(last')) =>
           /\ UNCHANGED <<tasks, queue, store, connect_attempts>>
           /\ UNCHANGED <<profiles, selected_profile, path_inputs, validation_errors,
                          run_history, history_filter, grpc_client, daemon_status,
                          loading_state, memory_unit, memory_display_value>>
           /\ view_mode' = IF last'.type = "SwitchView" THEN "RunHistory" ELSE view_mode]_vars

C2_Witness ==
    /\ last = [type |-> "SwitchView", mode |-> "RunHistory"]
    /\ view_mode = "RunHistory"
    /\ Len(tasks) = 1 /\ tasks[1].kind = "stop_sandbox"
    /\ ~IsSome(grpc_client)

---------------------------------------------------------------------------
(* Completions hand the client back *)

Resolve ==
    \/ \E socket_exists, transport_ok \in BOOLEAN : ConnectResolves(socket_exists, transport_ok)
    \/ \E reply \in ListReplies : ListSandboxesResolves(reply)
    \/ \E reply \in RunReplies : RunSandboxResolves(reply)
    \/ \E reply \in StopReplies : StopSandboxResolves(reply)

Deliver == GrpcClientConnected \/ RunSandboxResult \/ StopSandboxResult \/ HistoryLoaded

\* every future resolves and every resolved future's message is dispatched
FairSpec == Spec /\ WF_vars(Resolve) /\ WF_vars(Deliver)

CompletionTypes == {"HistoryLoaded", "RunSandboxResult", "StopSandboxResult"}

\* C3: every completion event, success or failure, puts the client back in the
\* controller's slot; so whenever the client is taken it is eventually present again
C3_ClientReturns ==
    /\ [][last'.type \in CompletionTypes => grpc_client' = Some(Client)]_vars
    /\ (daemon_status = "Connected" /\ ~IsSome(grpc_client)) ~> IsSome(grpc_client)

C3_Witness ==
    /\ last.type = "HistoryLoaded" /\ ~last.result.ok
    /\ grpc_client = Some(Client)
    /\ CallsInFlight = 0

---------------------------------------------------------------------------
(* DeleteProfile *)

\* C4: DeleteProfile(i) with i < count removes the profile at i and keeps the
\* order of the others; a selection s = i is cleared and the mode becomes
\* ProfileList; s > i becomes s - 1; s < i, or no selection, is kept with the
\* mode; a kept selection designates the profile it designated before
C4_DeleteTracksSelection ==
    [][(last'.type = "DeleteProfile" /\ last'.index < Len(profiles)) =>
          LET i == last'.index
          IN  /\ Len(profiles') = Len(profiles) - 1
              /\ \A k \in 0..(Len(profiles') - 1) :
                    profiles'[k + 1] = profiles[(IF k < i THEN k ELSE k + 1) + 1]
              /\ selected_profile = None =>
                    selected_profile' = None /\ view_mode' = view_mode
              /\ \A s \in 0..(Len(profiles) - 1) :
                    selected_profile = Some(s) =>
                       /\ s = i => selected_profile' = None /\ view_mode' = "ProfileList"
                       /\ s > i => /\ selected_profile' = Some(s - 1)
                                   /\ view_mode' = view_mode
                                   /\ profiles'[(s - 1) + 1] = profiles[s + 1]
                       /\ s < i => /\ selected_profile' = Some(s)
                                   /\ view_mode' = view_mode
                                   /\ profiles'[s + 1] = profiles[s + 1]]_vars

C4_Witness ==
    /\ last.type = "DeleteProfile"
    /\ IsSome(selected_profile)
    /\ Unwrap(selected_profile) >= last.index
    /\ Unwrap(selected_profile) < Len(profiles)

---------------------------------------------------------------------------
(* SaveProfile *)

\* C5: SaveProfile with any validation error present changes nothing (store,
\* errors, controller state); the store changes only by a SaveProfile taken
\* with no error present, which writes the selected profile under its name
C5_SaveOnlyWhenValid ==
    [][/\ (last'.type = "SaveProfile" /\ validation_errors # EmptyMap) =>
              UNCHANGED <<ctl, store, tasks, queue, connect_attempts>>
       /\ store' # store =>
              /\ last'.type = "SaveProfile"
              /\ validation_errors = EmptyMap /\ validation_errors' = EmptyMap
              /\ IsSome(SelectedProfile)
              /\ DOMAIN store' = DOMAIN store \cup {Unwrap(SelectedProfile).name}
              /\ \A n \in DOMAIN store : n # Unwrap(SelectedProfile).name => store'[n] = store[n]
              /\ UNCHANGED ctl]_vars

C5_Witness ==
    /\ last.type = "SaveProfile"
    /\ validation_errors # EmptyMap
    /\ IsSome(SelectedProfile)
    /\ Unwrap(SelectedProfile).name \notin DOMAIN store

---------------------------------------------------------------------------
(* HistoryLoaded *)

\* C6: HistoryLoaded sets loading to Idle in both outcomes; on success the run
\* history becomes one RunRecord per sandbox record of the daemon's reply, in
\* order, with that record's id and the profile name "unknown"; on failure the
\* run history is unchanged
C6_HistoryLoaded ==
    [][last'.type = "HistoryLoaded" =>
          LET reply == Head(queue).result
          IN  /\ loading_state' = "Idle"
              /\ reply.ok =>
                    /\ Len(run_history') = Len(reply.value)
                    /\ \A k \in 1..Len(reply.value) :
                          /\ run_history'[k].id = reply.value[k].sandbox_id
                          /\ run_history'[k].profile_name = "unknown"
              /\ ~reply.ok => run_history' = run_history]_vars

C6_Witness ==
    /\ last.type = "HistoryLoaded" /\ last.result.ok
    /\ Len(run_history) = 2
    /\ run_history[1].id = "sb-2" /\ run_history[2].id = "sb-1"
    /\ loading_state = "Idle"

---------------------------------------------------------------------------
(* RunSandbox *)

\* the maximal runs of non-whitespace characters of s, left to right
WordStarts(s) == {k \in 1..Len(s) : s[k] \notin Whitespace /\ (k = 1 \/ s[k - 1] \in Whitespace)}
WordEnd(s, k) == CHOOSE e \in k..Len(s) :
                    /\ \A j \in k..e : s[j] \notin Whitespace
                    /\ e = Len(s) \/ s[e + 1] \in Whitespace
IsWordsOf(words, s) ==
    /\ Len(words) = Cardinality(WordStarts(s))
    /\ \A k \in WordStarts(s) :
          words[Cardinality({j \in WordStarts(s) : j <= k})] = SubSeq(s, k, WordEnd(s, k))

\* C7: RunSandbox of an existing profile with the client present takes the
\* client, sets loading to RunningSandbox and issues run_sandbox with the
\* command split on whitespace (an index that names no profile changes
\* nothing); RunSandboxResult puts the client back, sets loading to Idle and
\* changes nothing else, whatever the result
C7_RunSandbox ==
    [][/\ (last'.type = "RunSandbox" /\ IsSome(grpc_client)
             /\ last'.profile_idx < Len(profiles)) =>
              /\ grpc_client' = None
              /\ loading_state' = "RunningSandbox"
              /\ Len(tasks') = Len(tasks) + 1
              /\ LET t == tasks'[Len(tasks')]
                 IN  /\ t.kind = "run_sandbox"
                     /\ t.policy = profiles[last'.profile_idx + 1]
                     /\ IsWordsOf(t.command, last'.command)
       /\ (last'.type = "RunSandbox" /\ last'.profile_idx >= Len(profiles)) =>
              UNCHANGED <<ctl, tasks, queue, store>>
       /\ last'.type = "RunSandboxResult" =>
              /\ grpc_client' = Some(Client)
              /\ loading_state' = "Idle"
              /\ UNCHANGED <<profiles, selected_profile, view_mode, path_inputs,
                             validation_errors, run_history, history_filter,
                             daemon_status, memory_unit, memory_display_value,
                             tasks, store>>]_vars

C7_Witness ==
    /\ last.type = "RunSandboxResult" /\ last.result.ok
    /\ loading_state = "Idle"
    /\ grpc_client = Some(Client)

---------------------------------------------------------------------------
(* Connecting to the daemon *)

NoConnectPending ==
    /\ \A k \in 1..Len(tasks) : tasks[k].kind # "connect"
    /\ \A k \in 1..Len(queue) : queue[k].kind # "connect"

\* C8: the connection event stores the client and sets Connected on success,
\* sets Offline and leaves the client absent on failure; neither starts another
\* connection attempt: the one made at construction is the only one
C8_ConnectionEvent ==
    /\ [][last'.type = "GrpcClientConnected" =>
             /\ last'.result.ok =>
                   grpc_client' = Some(Client) /\ daemon_status' = "Connected"
             /\ ~last'.result.ok =>
                   grpc_client' = None /\ daemon_status' = "Offline"
             /\ connect_attempts' = connect_attempts
             /\ tasks' = tasks]_vars
    /\ [](connect_attempts = 1)

C8_Witness ==
    /\ last.type = "GrpcClientConnected" /\ ~last.result.ok
    /\ daemon_status = "Offline"
    /\ ~IsSome(grpc_client)

\* C9 as stated: a SwitchView while Offline starts a new connection attempt
C9_Original ==
    [][(daemon_status = "Offline" /\ last'.type = "SwitchView") =>
           connect_attempts' = connect_attempts + 1]_vars

\* C9: after a connection failure no connection is attempted again, neither
\* automatically nor by a SwitchView or any other event: the status stays
\* Offline, the client stays absent and no call is ever issued
C9_NeverRetried ==
    /\ [][daemon_status = "Offline" =>
             /\ daemon_status' = "Offline"
             /\ connect_attempts' = connect_attempts
             /\ tasks' = tasks /\ queue' = queue]_vars
    /\ [](daemon_status = "Offline" =>
             ~IsSome(grpc_client) /\ tasks = <<>> /\ queue = <<>>)

C9_Witness ==
    /\ daemon_status = "Offline"
    /\ last = [type |-> "SwitchView", mode |-> "RunHistory"]
    /\ connect_attempts = 1
    /\ tasks = <<>>

---------------------------------------------------------------------------
(* CreateNewProfile *)

\* C10: CreateNewProfile with count profiles appends a policy with the default
\* fields, named "profile-{count+1}", selects it, enters ProfileEditor and
\* leaves the validation errors and path inputs empty; the profiles already
\* there are unchanged; with 2 profiles the new one is "profile-3"
C10_CreateNewProfile ==
    [][last'.type = "CreateNewProfile" =>
          LET count == Len(profiles)
              new == profiles'[count + 1]
          IN  /\ Len(profiles') = count + 1
              /\ SubSeq(profiles', 1, count) = profiles
              /\ new.name = <<"p", "r", "o", "f", "i", "l", "e", "-">> \o ToDecimal(count + 1)
              /\ count = 2 => new.name = <<"p", "r", "o", "f", "i", "l", "e", "-", "3">>
              /\ new.version = "1.0.0" /\ new.description = None
              /\ new.capabilities.network = "Disabled"
              /\ new.capabilities.filesystem = {}
              /\ new.capabilities.allowed_paths = <<>>
              /\ new.capabilities.denied_paths = <<>>
              /\ new.capabilities.resource_limits =
                    [cpus |-> None, memory_bytes |-> None, max_processes |-> None]
              /\ new.sandbox.root_path = "/" /\ new.sandbox.mounts = <<>>
              /\ selected_profile' = Some(count)
              /\ view_mode' = "ProfileEditor"
              /\ validation_errors' = EmptyMap
              /\ path_inputs' = [allowed_input |-> <<>>, denied_input |-> <<>>]]_vars

C10_Witness ==
    /\ last.type = "CreateNewProfile"
    /\ Len(profiles) = 3
    /\ profiles[3].name = <<"p", "r", "o", "f", "i", "l", "e", "-", "3">>
    /\ selected_profile = Some(2)
    /\ view_mode = "ProfileEditor"

---------------------------------------------------------------------------
(* Names in the collection and in the store *)

\* C11: a profile appended by CreateNewProfile gets a name no other profile of
\* the collection has, in every state reached by create and delete alone, so
\* saving it never overwrites the file of a different profile
C11_FreshName ==
    [][last'.type = "CreateNewProfile" =>
          \A k \in 1..Len(profiles) : profiles[k].name # profiles'[Len(profiles')].name]_vars

---------------------------------------------------------------------------
(* DuplicateProfile *)

\* C12: DuplicateProfile(i) with i in range appends a copy of profile i named
\* the original name followed by "-copy", every other field equal; selection,
\* view mode and existing profiles are unchanged; with i out of range nothing
\* changes
C12_DuplicateProfile ==
    [][last'.type = "DuplicateProfile" =>
          LET i == last'.index
              count == Len(profiles)
          IN  /\ i < count =>
                    /\ Len(profiles') = count + 1
                    /\ SubSeq(profiles', 1, count) = profiles
                    /\ profiles'[count + 1].name =
                          profiles[i + 1].name \o <<"-", "c", "o", "p", "y">>
                    /\ [profiles'[count + 1] EXCEPT !.name = profiles[i + 1].name]
                          = profiles[i + 1]
              /\ i >= count => profiles' = profiles
              /\ UNCHANGED <<selected_profile, view_mode, path_inputs, validation_errors,
                             run_history, history_filter, grpc_client, daemon_status,
                             loading_state, memory_unit, memory_display_value,
                             tasks, queue, store>>]_vars

\* the copy's name is one another profile already has
C12_Witness ==
    /\ last.type = "DuplicateProfile" /\ last.index = 0
    /\ Len(profiles) = 3
    /\ profiles[3].name = profiles[1].name \o <<"-", "c", "o", "p", "y">>
    /\ profiles[3].name = profiles[2].name

---------------------------------------------------------------------------
(* ProfileSelected *)

\* C13: ProfileSelected(idx) sets the selection to idx and the mode to
\* ProfileEditor and empties the validation errors and both path inputs,
\* whatever they held; the collection is unchanged
C13_ProfileSelected ==
    [][last'.type = "ProfileSelected" =>
          /\ selected_profile' = Some(last'.index)
          /\ view_mode' = "ProfileEditor"
          /\ DOMAIN validation_errors' = {}
          /\ path_inputs'.allowed_input = <<>> /\ path_inputs'.denied_input = <<>>
          /\ profiles' = profiles]_vars

\* errors and path inputs to reset, and another profile to select
C13_Witness ==
    /\ validation_errors # EmptyMap
    /\ path_inputs.allowed_input # <<>> /\ path_inputs.denied_input # <<>>
    /\ Len(profiles) = 2 /\ selected_profile = Some(0)

---------------------------------------------------------------------------
(* NameChanged *)

IsBlank(s) == \A k \in 1..Len(s) : s[k] \in {" ", "\t", "\n", "\r"}

\* C14: NameChanged(S) with S not blank, on a selected profile, clears the
\* "name" error and sets the profile's name to S; no other validation key,
\* no other field and no other profile is touched
C14_NameAccepted ==
    [][(last'.type = "NameChanged" /\ ~IsBlank(last'.name) /\ IsSome(SelectedProfile)) =>
          LET idx == Unwrap(selected_profile)
          IN  /\ DOMAIN validation_errors' = DOMAIN validation_errors \ {"name"}
              /\ \A k \in DOMAIN validation_errors' : validation_errors'[k] = validation_errors[k]
              /\ Len(profiles') = Len(profiles)
              /\ profiles'[idx + 1].name = last'.name
              /\ [profiles'[idx + 1] EXCEPT !.name = profiles[idx + 1].name] = profiles[idx + 1]
              /\ \A k \in 1..Len(profiles) : k # idx + 1 => profiles'[k] = profiles[k]]_vars

C14_Witness ==
    /\ last.type = "NameChanged" /\ last.name = <<" ", "b">>
    /\ IsSome(SelectedProfile) /\ Unwrap(SelectedProfile).name = <<" ", "b">>
    /\ DOMAIN validation_errors = {"max_processes"}

\* C15: NameChanged with a blank input records "Name cannot be empty" under
\* "name" and assigns nothing; every profile's name, and every name a profile
\* was saved under, is non-empty after trimming
C15_NamesNotBlank ==
    /\ [][(last'.type = "NameChanged" /\ IsBlank(last'.name) /\ IsSome(SelectedProfile)) =>
             /\ "name" \in DOMAIN validation_errors'
             /\ validation_errors'["name"] = "Name cannot be empty"
             /\ profiles' = profiles]_vars
    /\ [](\A k \in 1..Len(profiles) : ~IsBlank(profiles[k].name))
    /\ [](\A n \in DOMAIN store : ~IsBlank(n))

C15_Witness ==
    /\ last.type = "NameChanged" /\ last.name = <<" ", "\t">>
    /\ IsSome(SelectedProfile)
    /\ "name" \in DOMAIN validation_errors
    /\ Unwrap(SelectedProfile).name = <<"a", "-", "c", "o", "p", "y">>
    /\ <<"a">> \in DOMAIN store

---------------------------------------------------------------------------
(* The memory limit *)

\* an optional sign, then digits with at most one point and at least one digit
LooksNumeric(s) ==
    LET body == IF s # <<>> /\ Head(s) \in {"+", "-"} THEN Tail(s) ELSE s
    IN  /\ \E k \in 1..Len(body) : IsDigit(body[k])
        /\ \A k \in 1..Len(body) : IsDigit(body[k]) \/ body[k] = "."
        /\ \A j, k \in 1..Len(body) : (body[j] = "." /\ body[k] = ".") => j = k

MemoryLimit(ps, idx) == ps[idx + 1].capabilities.resource_limits.memory_bytes

\* a MemoryBytesChanged step on a selected profile
MemoryStep(msg) == msg.type = "MemoryBytesChanged" /\ IsSome(SelectedProfile)

\* the product value * multiplier is within the integers computed with
Computable(v, unit) == v.num <= MaxBytes \div Multiplier(unit)

OtherErrorsKept(key) ==
    /\ DOMAIN validation_errors' \ {key} = DOMAIN validation_errors \ {key}
    /\ \A k \in DOMAIN validation_errors \ {key} : validation_errors'[k] = validation_errors[k]

\* C16: memory validation on a selected profile records "Must be a number" iff
\* the input is non-empty and does not parse, and then leaves the limit as it
\* was; an empty input clears the error and unsets the limit; a parseable
\* input clears the error and stores a value
C16_MemoryValidation ==
    [][MemoryStep(last') =>
          LET N == last'.value
              old == MemoryLimit(profiles, Unwrap(selected_profile))
              new == MemoryLimit(profiles', Unwrap(selected_profile))
          IN  /\ (N # <<>> /\ ~LooksNumeric(N)) =>
                    /\ "memory_bytes" \in DOMAIN validation_errors'
                    /\ validation_errors'["memory_bytes"] = "Must be a number"
                    /\ new = old
              /\ N = <<>> =>
                    "memory_bytes" \notin DOMAIN validation_errors' /\ new = None
              /\ LooksNumeric(N) =>
                    "memory_bytes" \notin DOMAIN validation_errors' /\ IsSome(new)
              /\ OtherErrorsKept("memory_bytes")]_vars

C16_Witness ==
    /\ last = [type |-> "MemoryBytesChanged", value |-> <<"x">>]
    /\ IsSome(SelectedProfile)
    /\ "memory_bytes" \in DOMAIN validation_errors
    /\ MemoryLimit(profiles, Unwrap(selected_profile)) = Some(536870912)

\* value * multiplier rounded to the nearest whole number; a byte count is
\* unsigned, so a negative product counts as 0
Rounded(v, unit) ==
    LET p == v.num * Multiplier(unit)
        nearest == (p \div v.den) + (IF 2 * (p % v.den) >= v.den THEN 1 ELSE 0)
    IN  IF v.neg THEN 0 ELSE nearest

\* C17 as stated: for every numeric string N and unit U memory validation
\* stores round(parse(N) * multiplier(U)) bytes
C17_Original ==
    [][(MemoryStep(last') /\ LooksNumeric(last'.value)
          /\ Computable(Unwrap(parse_f64(last'.value)), memory_unit)) =>
          MemoryLimit(profiles', Unwrap(selected_profile))
             = Some(Rounded(Unwrap(parse_f64(last'.value)), memory_unit))]_vars

\* C17: for every numeric string N and unit U memory validation stores
\* parse(N) * multiplier(U) with the fraction dropped, not rounded, and 0 for a
\* negative N; the multipliers are 1, 1024, 1024^2, 1024^3
C17_Truncates ==
    [][(MemoryStep(last') /\ LooksNumeric(last'.value)
          /\ Computable(Unwrap(parse_f64(last'.value)), memory_unit)) =>
          LET v == Unwrap(parse_f64(last'.value))
          IN  /\ Multiplier(memory_unit) =
                    CASE memory_unit = "Bytes" -> 1
                      [] memory_unit = "KB" -> 1024
                      [] memory_unit = "MB" -> 1048576
                      [] memory_unit = "GB" -> 1073741824
              /\ MemoryLimit(profiles', Unwrap(selected_profile)) =
                    Some(IF v.neg THEN 0 ELSE (v.num * Multiplier(memory_unit)) \div v.den)]_vars

C17_Witness ==
    /\ last = [type |-> "MemoryBytesChanged", value |-> <<"1", ".", "5">>]
    /\ memory_unit = "Bytes"
    /\ IsSome(SelectedProfile)
    /\ MemoryLimit(profiles, Unwrap(selected_profile)) = Some(1)

\* C18: an accepted memory input is stored as value * multiplier truncated
\* toward zero to an unsigned integer; for a non-negative integer N the limit
\* is exactly N * multiplier(U): "512" with unit MB stores 536870912
C18_WholeNumbers ==
    [][(MemoryStep(last') /\ LooksNumeric(last'.value)
          /\ Computable(Unwrap(parse_f64(last'.value)), memory_unit)) =>
          LET v == Unwrap(parse_f64(last'.value))
              m == Multiplier(memory_unit)
              new == MemoryLimit(profiles', Unwrap(selected_profile))
          IN  /\ IsSome(new) /\ Unwrap(new) >= 0
              /\ v.neg => Unwrap(new) = 0
              /\ ~v.neg => /\ Unwrap(new) * v.den <= v.num * m
                           /\ v.num * m < (Unwrap(new) + 1) * v.den
              /\ (~v.neg /\ v.den = 1) => Unwrap(new) = v.num * m
              /\ (last'.value = <<"5", "1", "2">> /\ memory_unit = "MB") =>
                    Unwrap(new) = 536870912]_vars

C18_Witness ==
    /\ last = [type |-> "MemoryBytesChanged", value |-> <<"5", "1", "2">>]
    /\ memory_unit = "MB"
    /\ IsSome(SelectedProfile)
    /\ MemoryLimit(profiles, Unwrap(selected_profile)) = Some(536870912)

\* C19: a memory limit is assigned only from input validated as a parseable
\* non-negative number: an input that does not parse, or a negative input,
\* never changes the stored limit
C19_OnlyNonNegative ==
    [][MemoryStep(last') =>
          LET N == last'.value
              old == MemoryLimit(profiles, Unwrap(selected_profile))
              new == MemoryLimit(profiles', Unwrap(selected_profile))
          IN  /\ (N # <<>> /\ ~LooksNumeric(N)) => new = old
              /\ (N # <<>> /\ Head(N) = "-") => new = old]_vars

---------------------------------------------------------------------------
(* The process limit *)

\* an optional '+', then one or more digits, of value at most u32::MAX
IsU32Numeral(s) ==
    LET body == IF s # <<>> /\ Head(s) = "+" THEN Tail(s) ELSE s
    IN  /\ body # <<>>
        /\ \A k \in 1..Len(body) : IsDigit(body[k])
        /\ \/ Len(StripZeros(body)) < 10
           \/ Len(StripZeros(body)) = 10 /\ ~DigitsGreater(StripZeros(body), U32MaxDigits)

ProcessLimit(ps, idx) == ps[idx + 1].capabilities.resource_limits.max_processes

\* C20: MaxProcessesChanged on a selected profile records "Must be a positive
\* number" under "max_processes" iff the input does not parse as a
\* non-negative integer of the limit's unsigned 32-bit type (the empty input
\* included), and then leaves the limit as it was; otherwise it stores the
\* parsed value and clears that error; no other validation key is touched
C20_MaxProcesses ==
    [][(last'.type = "MaxProcessesChanged" /\ IsSome(SelectedProfile)) =>
          LET N == last'.value
              idx == Unwrap(selected_profile)
          IN  /\ ~IsU32Numeral(N) =>
                    /\ "max_processes" \in DOMAIN validation_errors'
                    /\ validation_errors'["max_processes"] = "Must be a positive number"
                    /\ profiles' = profiles
              /\ IsU32Numeral(N) =>
                    /\ "max_processes" \notin DOMAIN validation_errors'
                    /\ ProcessLimit(profiles', idx) =
                          Some(U32(DecimalValue(IF Head(N) = "+" THEN Tail(N) ELSE N)))
              /\ OtherErrorsKept("max_processes")]_vars

C20_Witness ==
    /\ last.type = "MaxProcessesChanged"
    /\ last.value = <<"9", "9", "9", "9", "9", "9", "9", "9", "9", "9", "9">>
    /\ IsSome(SelectedProfile)
    /\ "max_processes" \in DOMAIN validation_errors
    /\ "name" \in DOMAIN validation_errors
    /\ ProcessLimit(profiles, Unwrap(selected_profile)) = Some(U32(4))

---------------------------------------------------------------------------
(* Adding paths *)

\* the input buffer AddPath reads for a list
PathInput(inputs, path_type) ==
    IF path_type = "Allowed" THEN inputs.allowed_input ELSE inputs.denied_input

OtherPathType(path_type) == IF path_type = "Allowed" THEN "Denied" ELSE "Allowed"

\* a validation error key is present in both maps with one message, or in neither
SameError(a, b, key) ==
    /\ key \in DOMAIN a <=> key \in DOMAIN b
    /\ key \in DOMAIN a => a[key] = b[key]

\* C21: AddPath for a list whose input buffer is empty after trimming records
\* "Path cannot be empty" under that list's own key and leaves the profiles
\* (both path lists), both input buffers and the other list's error key as
\* they were.
C21_AddPathBlank ==
    [][(last'.type = "AddPath" /\ IsBlank(PathInput(path_inputs, last'.path_type))) =>
          /\ PathFieldName(last'.path_type) \in DOMAIN validation_errors'
          /\ validation_errors'[PathFieldName(last'.path_type)] = "Path cannot be empty"
          /\ profiles' = profiles
          /\ path_inputs' = path_inputs
          /\ SameError(validation_errors', validation_errors,
                       PathFieldName(OtherPathType(last'.path_type)))
          /\ PathFieldName("Allowed") # PathFieldName("Denied")]_vars

\* a blank denied-path input was rejected while a profile holding paths is
\* selected, the allowed input is filled and the allowed list's error is absent
C21_Witness ==
    /\ last.type = "AddPath"
    /\ last.path_type = "Denied"
    /\ path_inputs.denied_input = <<" ">>
    /\ path_inputs.allowed_input # <<>>
    /\ DOMAIN validation_errors = {"Denied_path"}
    /\ IsSome(SelectedProfile)
    /\ Unwrap(SelectedProfile).capabilities.allowed_paths # <<>>

PathList(p, path_type) ==
    IF path_type = "Allowed" THEN p.capabilities.allowed_paths ELSE p.capabilities.denied_paths

\* C22: AddPath for a list whose input buffer is not empty after trimming,
\* with a profile selected, appends the input at the end of that list of the
\* selected profile (the earlier entries keep their place), empties that input
\* buffer and removes that list's error key; the other list, the other
\* buffer, the other list's error key and the other profiles are unchanged.
C22_AddPathAppends ==
    [][(/\ last'.type = "AddPath"
        /\ ~IsBlank(PathInput(path_inputs, last'.path_type))
        /\ IsSome(SelectedProfile)) =>
          LET t == last'.path_type
              o == OtherPathType(t)
              i == Unwrap(selected_profile)
              before == Unwrap(SelectedProfile)
              after == profiles'[i + 1]
          IN  /\ Len(profiles') = Len(profiles)
              /\ PathList(after, t) = PathList(before, t) \o <<PathInput(path_inputs, t)>>
              /\ PathList(after, o) = PathList(before, o)
              /\ after = IF t = "Allowed"
                         THEN [before EXCEPT !.capabilities.allowed_paths = PathList(after, t)]
                         ELSE [before EXCEPT !.capabilities.denied_paths = PathList(after, t)]
              /\ \A k \in 1..Len(profiles) : k # i + 1 => profiles'[k] = profiles[k]
              /\ PathInput(path_inputs', t) = <<>>
              /\ PathInput(path_inputs', o) = PathInput(path_inputs, o)
              /\ PathFieldName(t) \notin DOMAIN validation_errors'
              /\ SameError(validation_errors', validation_errors, PathFieldName(o))
              /\ selected_profile' = selected_profile]_vars

\* a second, different path was appended behind the first in the allowed
\* list while the denied list carries an error
C22_Witness ==
    /\ last.type = "AddPath"
    /\ last.path_type = "Allowed"
    /\ IsSome(SelectedProfile)
    /\ Unwrap(SelectedProfile).capabilities.allowed_paths = <<<<"/", "a">>, <<"/", "b", " ">>>>
    /\ path_inputs.allowed_input = <<>>
    /\ DOMAIN validation_errors = {"Denied_path"}

---------------------------------------------------------------------------
(* The policy on the wire *)

\* the wire policy of the run_sandbox call a task makes
WirePolicy(task) ==
    Unwrap(RunRequest(task.policy, task.command, task.working_dir).inline_policy)

WireFilesystem(wire) == Unwrap(Unwrap(wire.capabilities).filesystem)

\* the policy with another denied-path list
WithDenied(policy, denied) == [policy EXCEPT !.capabilities.denied_paths = denied]

\* C23: in the wire policy of every run_sandbox call, the read, write and
\* execute path arrays are each the policy's whole allowed-path list when the
\* flag is in the filesystem capability set and empty when it is not, and
\* they are the same whatever the denied-path list holds.
C23_WirePaths ==
    \A k \in 1..Len(tasks) :
        tasks[k].kind = "run_sandbox" =>
            LET caps == tasks[k].policy.capabilities
                fs == WireFilesystem(WirePolicy(tasks[k]))
                Expected(flag) == IF flag \in caps.filesystem THEN caps.allowed_paths ELSE <<>>
            IN  /\ fs.read = Expected("Read")
                /\ fs.write = Expected("Write")
                /\ fs.execute = Expected("Execute")
                /\ \A denied \in {<<>>, <<PathOf.Denied>>, caps.allowed_paths,
                                  caps.denied_paths \o caps.denied_paths} :
                      WireFilesystem(convert_policy_to_proto(
                          WithDenied(tasks[k].policy, denied))) = fs

\* a run is in flight for a policy that grants Read and Execute but not
\* Write and holds both allowed and denied paths
C23_Witness ==
    \E k \in 1..Len(tasks) :
        /\ tasks[k].kind = "run_sandbox"
        /\ tasks[k].policy.capabilities.filesystem = {"Read", "Execute"}
        /\ tasks[k].policy.capabilities.allowed_paths # <<>>
        /\ tasks[k].policy.capabilities.denied_paths # <<>>
        /\ WireFilesystem(WirePolicy(tasks[k])).write = <<>>
        /\ WireFilesystem(WirePolicy(tasks[k])).read # <<>>

---------------------------------------------------------------------------
(* The memory limit on the wire *)

WireMemory(task) == Unwrap(WirePolicy(task).resources).memory

\* the number of bytes a wire memory string denotes: its digits, times the
\* power of 1024 its suffix letter stands for
Denoted(s) ==
    LET Front == SubSeq(s, 1, Len(s) - 1)
    IN  CASE s[Len(s)] = "G" -> DecimalValue(Front) * Multiplier("GB")
          [] s[Len(s)] = "M" -> DecimalValue(Front) * Multiplier("MB")
          [] s[Len(s)] = "K" -> DecimalValue(Front) * Multiplier("KB")
          [] OTHER -> DecimalValue(s)

\* the short form of b bytes: whole GiB, else whole MiB, else whole KiB, else bytes
ShortForm(b) ==
    IF b >= Multiplier("GB") THEN ToDecimal(b \div Multiplier("GB")) \o <<"G">>
    ELSE IF b >= Multiplier("MB") THEN ToDecimal(b \div Multiplier("MB")) \o <<"M">>
    ELSE IF b >= Multiplier("KB") THEN ToDecimal(b \div Multiplier("KB")) \o <<"K">>
    ELSE ToDecimal(b)

\* C24: in every run_sandbox call the wire memory string of a limit of b
\* bytes is floor(b / 2^30) followed by G when b >= 2^30, else floor(b / 2^20)
\* followed by M when b >= 2^20, else floor(b / 2^10) followed by K when
\* b >= 2^10, else the decimal byte count, and "0" when the limit is unset;
\* the number of bytes the string denotes is never more than b.
C24_WireMemory ==
    \A k \in 1..Len(tasks) :
        tasks[k].kind = "run_sandbox" =>
            LET limit == tasks[k].policy.capabilities.resource_limits.memory_bytes
            IN  IF IsSome(limit)
                THEN /\ WireMemory(tasks[k]) = ShortForm(Unwrap(limit))
                     /\ Denoted(WireMemory(tasks[k])) <= Unwrap(limit)
                ELSE WireMemory(tasks[k]) = <<"0">>

\* a run is in flight for a limit of one GiB and one KiB, sent as "1G"
C24_Witness ==
    \E k \in 1..Len(tasks) :
        /\ tasks[k].kind = "run_sandbox"
        /\ tasks[k].policy.capabilities.resource_limits.memory_bytes
              = Some(Multiplier("GB") + Multiplier("KB"))
        /\ WireMemory(tasks[k]) = <<"1", "G">>

---------------------------------------------------------------------------
(* Persistence round trip *)

Limits(policy) == policy.capabilities.resource_limits

\* the file a step wrote: the one that is new or whose content changed
WrittenKey(before, after) ==
    CHOOSE n \in DOMAIN after : n \notin DOMAIN before \/ after[n] # before[n]

\* C25: when a save writes the selected policy under a storage key, every
\* load of the directory returns exactly one policy of that name, equal to
\* the saved policy in every field other than the name; each of cpus, memory
\* and max processes that was unset is unset in the loaded policy, and each
\* that was set has its value.
C25_RoundTrip ==
    [][(last'.type = "SaveProfile" /\ store' # store) =>
          LET saved == Unwrap(SelectedProfile)
              key == WrittenKey(store, store')
          IN  \A loaded \in load_profiles(store') :
                 /\ Cardinality({k \in 1..Len(loaded) : loaded[k].name = key}) = 1
                 /\ \A k \in 1..Len(loaded) :
                       loaded[k].name = key =>
                          /\ loaded[k] = [saved EXCEPT !.name = key]
                          /\ IsSome(Limits(loaded[k]).cpus) <=> IsSome(Limits(saved).cpus)
                          /\ IsSome(Limits(loaded[k]).memory_bytes)
                                <=> IsSome(Limits(saved).memory_bytes)
                          /\ IsSome(Limits(loaded[k]).max_processes)
                                <=> IsSome(Limits(saved).max_processes)
                          /\ Limits(loaded[k]) = Limits(saved)]_vars

\* a policy with max processes set, cpus and memory unset and the Read flag
\* granted has just been saved, and its file loads back as that policy
C25_Witness ==
    /\ last.type = "SaveProfile"
    /\ IsSome(SelectedProfile)
    /\ Limits(Unwrap(SelectedProfile)) =
          [cpus |-> None, memory_bytes |-> None, max_processes |-> Some(U32(4))]
    /\ Unwrap(SelectedProfile).capabilities.filesystem = {"Read"}
    /\ Unwrap(SelectedProfile).name \in DOMAIN store
    /\ store[Unwrap(SelectedProfile).name].well_formed
    /\ PolicyOfToml(store[Unwrap(SelectedProfile).name].doc, Unwrap(SelectedProfile).name)
          = Unwrap(SelectedProfile)

\* C26: right after start-up the collection holds one policy per well-formed
\* file of the directory, each named by its file's stem and holding the
\* file's content; a malformed file contributes nothing, no error is recorded
\* and the well-formed files beside it are still loaded.
C26_LoadSkipsMalformed ==
    last.type = "new" =>
        LET good == {n \in DOMAIN store : store[n].well_formed}
        IN  /\ Len(profiles) = Cardinality(good)
            /\ {profiles[k].name : k \in 1..Len(profiles)} = good
            /\ \A k \in 1..Len(profiles) :
                  /\ profiles[k].name \in good
                  /\ [profiles[k] EXCEPT !.name = DefaultName] =
                        [PolicyOfToml(store[profiles[k].name].doc, profiles[k].name)
                            EXCEPT !.name = DefaultName]
            /\ validation_errors = EmptyMap
            /\ selected_profile = None /\ view_mode = "ProfileList"

\* the program started on a directory holding a malformed file and a file
\* saved with a max-processes limit, and loaded the one profile
C26_Witness ==
    /\ last.type = "new"
    /\ OtherStem \in DOMAIN store
    /\ ~store[OtherStem].well_formed
    /\ Len(profiles) = 1
    /\ profiles[1].name = Profile1
    /\ Limits(profiles[1]).max_processes = Some(U32(4))

---------------------------------------------------------------------------
(* Connecting *)

\* the output of the connect() future that has just resolved
Connected == queue[Len(queue)].result

\* position of a call in the calls connect() made, 0 when it was not made
CallAt(calls, name) ==
    IF \E k \in 1..Len(calls) : calls[k] = name
    THEN CHOOSE k \in 1..Len(calls) : calls[k] = name
    ELSE 0

\* C27: connect() fails with ConnectionFailed when the daemon socket path
\* does not exist, and then makes no transport-level connection attempt; when
\* it makes one, the existence check came before it and found the socket.
C27_ConnectChecksSocket ==
    [][(last'.type = "resolved" /\ last'.kind = "connect") =>
          /\ ~last'.socket_exists =>
                /\ ~Connected'.ok
                /\ Connected'.error.variant = "ConnectionFailed"
                /\ CallAt(last'.calls, "connect_with_connector") = 0
          /\ CallAt(last'.calls, "connect_with_connector") # 0 =>
                /\ last'.socket_exists
                /\ CallAt(last'.calls, "socket_path.exists") # 0
                /\ CallAt(last'.calls, "socket_path.exists")
                      < CallAt(last'.calls, "connect_with_connector")]_vars

\* connect() has just failed on a missing socket
C27_Witness ==
    /\ last.type = "resolved" /\ last.kind = "connect"
    /\ ~last.socket_exists
    /\ queue # <<>>
    /\ ~queue[Len(queue)].result.ok
    /\ queue[Len(queue)].result.error =
          ConnectionFailed("Daemon socket not found. Is hopsd running?")

---------------------------------------------------------------------------
(* Order of calls and completions *)

\* C28: a daemon call is issued only when no earlier call is pending: every
\* earlier call has resolved and its completion has been processed, which put
\* the client back; so the completion being processed is always that of the
\* one call in flight, the oldest issued and not yet completed, and
\* completions are observed in issue order.
C28_IssueOrder ==
    [][/\ CallsInFlight' > CallsInFlight =>
             /\ CallsInFlight = 0
             /\ CallsInFlight' = 1
             /\ grpc_client = Some(Client)
             /\ grpc_client' = None
       /\ last'.type \in CompletionTypes =>
             /\ CallsInFlight = 1
             /\ CallsInFlight' = 0
             /\ IsDaemonCall(Head(queue))
             /\ grpc_client' = Some(Client)]_vars

\* a stop call was issued after a list call had completed and filled the history
C28_Witness ==
    /\ last.type = "StopSandbox"
    /\ Len(tasks) = 1 /\ tasks[1].kind = "stop_sandbox"
    /\ run_history # <<>>
    /\ loading_state = "Idle"
    /\ ~IsSome(grpc_client)

---------------------------------------------------------------------------
(* Dropped events *)

\* the step issues a daemon call
Issues == CountCalls(tasks') = CountCalls(tasks) + 1

\* C29 as stated: a step issues a daemon call exactly when it handles a
\* call-triggering event that finds the client present
C29_Original ==
    [][Issues <=> (CallTriggering(last') /\ IsSome(grpc_client))]_vars

\* C29: a call-triggering event that finds the client absent is dropped: it
\* issues no call, and nothing of it is kept in the futures, the outputs or
\* the client slot; the completion that puts the client back issues no call;
\* a step issues a call exactly when it handles a call-triggering event that
\* finds the client present and, for RunSandbox, names an existing profile.
C29_DroppedNotQueued ==
    [][/\ (CallTriggering(last') /\ ~IsSome(grpc_client)) =>
             /\ tasks' = tasks
             /\ queue' = queue
             /\ grpc_client' = grpc_client
       /\ last'.type \in CompletionTypes =>
             /\ tasks' = tasks
             /\ CallsInFlight' = 0
             /\ grpc_client' = Some(Client)
       /\ Issues <=>
             /\ CallTriggering(last')
             /\ IsSome(grpc_client)
             /\ last'.type = "RunSandbox" => IsSome(VecGet(profiles, last'.profile_idx))]_vars

\* a stop call has completed after a view switch to the run history was
\* dropped: the client is back and no list call was issued
C29_Witness ==
    /\ last.type = "StopSandboxResult"
    /\ view_mode = "RunHistory"
    /\ IsSome(grpc_client)
    /\ tasks = <<>> /\ queue = <<>>
    /\ loading_state = "Idle"
    /\ run_history = <<>>

---------------------------------------------------------------------------
(* The loading indicator *)

\* a call of this kind is in flight: awaiting the daemon, or resolved and
\* its completion not yet processed
InFlight(kind) ==
    \/ \E k \in 1..Len(tasks) : tasks[k].kind = kind
    \/ \E k \in 1..Len(queue) : queue[k].kind = kind

\* C30: the loading indicator is LoadingHistory exactly when a list_sandboxes
\* call is in flight, RunningSandbox exactly when a run_sandbox call is in
\* flight, and Idle otherwise (no call, or a stop_sandbox call, in flight);
\* whenever it is not Idle the client is absent.
C30_LoadingMatchesCall ==
    /\ loading_state \in {"Idle", "LoadingHistory", "RunningSandbox"}
    /\ loading_state = "LoadingHistory" <=> InFlight("list_sandboxes")
    /\ loading_state = "RunningSandbox" <=> InFlight("run_sandbox")
    /\ loading_state = "Idle" <=> ~InFlight("list_sandboxes") /\ ~InFlight("run_sandbox")
    /\ loading_state # "Idle" => ~IsSome(grpc_client)

\* a failed list call has completed and the indicator is Idle again while
\* the history view is shown and the client is back
C30_Witness ==
    /\ last.type = "HistoryLoaded"
    /\ ~last.result.ok
    /\ loading_state = "Idle"
    /\ view_mode = "RunHistory"
    /\ IsSome(grpc_client)

---------------------------------------------------------------------------
(* Refreshing the run history *)

\* C31: whenever the daemon is Connected and a switch to the RunHistory view
\* has just been handled, a list_sandboxes call is in flight then or later
\* (in-flight calls resolve and their completions are delivered).
C31_SwitchRefreshes ==
    (/\ daemon_status = "Connected"
     /\ last = [type |-> "SwitchView", mode |-> "RunHistory"])
        ~> InFlight("list_sandboxes")

---------------------------------------------------------------------------
(* The selection *)

\* C32: with ProfileSelected dispatched only for indices of the collection
\* and no ProfilesLoaded after start-up, the selection is none or an index
\* strictly below the number of profiles, whatever select, create, delete,
\* duplicate and view-switch events were handled.
C32_SelectionInRange ==
    IsSome(selected_profile) =>
        /\ Unwrap(selected_profile) >= 0
        /\ Unwrap(selected_profile) < Len(profiles)

\* the profile in front of the selected last one was deleted while the run
\* history is shown: the selection moved down with it
C32_Witness ==
    /\ last = [type |-> "DeleteProfile", index |-> 0]
    /\ view_mode = "RunHistory"
    /\ Len(profiles) = 2
    /\ selected_profile = Some(1)

\* C33: while the view mode is ProfileList no profile is selected.
C33_ListHasNoSelection ==
    view_mode = "ProfileList" => selected_profile = None

\* the selected second profile of three was deleted: back in the list, with
\* no selection
C33_Witness ==
    /\ last = [type |-> "DeleteProfile", index |-> 1]
    /\ view_mode = "ProfileList"
    /\ selected_profile = None
    /\ Len(profiles) = 2
    /\ profiles[2].name = NewProfileName(2)

---------------------------------------------------------------------------
(* The memory error and the displayed input *)

\* C36: the "memory_bytes" validation error is present only if the displayed
\* memory input is non-empty and does not parse as a number.
C36_MemoryErrorMatchesDisplay ==
    "memory_bytes" \in DOMAIN validation_errors =>
        /\ memory_display_value # <<>>
        /\ ~IsSome(parse_f64(memory_display_value))

---------------------------------------------------------------------------
(* Field edits touch the selected profile only *)

FieldEdits ==
    {"NetworkCapabilityChanged", "FilesystemCapabilityToggled", "AddPath",
     "RemovePath", "CpuChanged", "MemoryBytesChanged", "MaxProcessesChanged",
     "NameChanged"}

\* C34: a field-edit event leaves the length and order of the collection
\* and every profile other than the selected one unchanged; with no profile
\* selected it leaves the whole collection unchanged.
C34_EditsSelectedOnly ==
    [][last'.type \in FieldEdits =>
          /\ Len(profiles') = Len(profiles)
          /\ \A k \in 1..Len(profiles) :
                selected_profile # Some(k - 1) => profiles'[k] = profiles[k]
          /\ selected_profile = None => profiles' = profiles
          /\ selected_profile' = selected_profile]_vars

\* the second of two profiles has just been given a process limit while the
\* first, edited before, keeps its own edit
C34_Witness ==
    /\ last.type = "MaxProcessesChanged"
    /\ Len(profiles) = 2
    /\ selected_profile = Some(1)
    /\ profiles[2].capabilities.resource_limits.max_processes = Some(U32(4))
    /\ profiles[1].capabilities.resource_limits.max_processes = None
    /\ Edits(profiles[1]) = 1

---------------------------------------------------------------------------
(* Persisted snapshots *)

\* C35: the persisted store changes only in a SaveProfile step with a profile
\* selected, and then only in the entry keyed by that profile's current name;
\* every other event, and every other entry, leaves the files as they are,
\* so a profile deleted or renamed in memory keeps its old file.
C35_OnlySaveWrites ==
    [][store' # store =>
          /\ last'.type = "SaveProfile"
          /\ IsSome(SelectedProfile)
          /\ DOMAIN store' = DOMAIN store \cup {Unwrap(SelectedProfile).name}
          /\ \A n \in DOMAIN store :
                n # Unwrap(SelectedProfile).name => store'[n] = store[n]
          /\ store'[Unwrap(SelectedProfile).name] =
                WellFormed(TomlOfPolicy(Unwrap(SelectedProfile)))]_vars

\* a saved profile was renamed, saved again and then deleted: both of its
\* files are still in the directory and no profile is left in memory
C35_Witness ==
    /\ last.type = "DeleteProfile"
    /\ profiles = <<>>
    /\ DOMAIN store = {Profile1, NewName}
    /\ store[NewName] # store[Profile1]

---------------------------------------------------------------------------
(* CPU and process limits on the wire *)

WireResources(task) == Unwrap(WirePolicy(task).resources)

\* the signed wire number is the stored limit, or 0 for a limit that is unset
SentAsStored(sent, limit) ==
    /\ sent >= 0
    /\ IF IsSome(limit) THEN U32(sent) = Unwrap(limit) ELSE sent = 0

\* C37: in the wire policy of every run_sandbox call, the CPU count and the
\* process limit are non-negative and equal to the stored limits, whatever
\* unsigned 32-bit value validation accepted, and are 0 for an unset limit.
C37_CountsAsStored ==
    \A k \in 1..Len(tasks) :
        tasks[k].kind = "run_sandbox" =>
            /\ SentAsStored(WireResources(tasks[k]).cpus, Limits(tasks[k].policy).cpus)
            /\ SentAsStored(WireResources(tasks[k]).max_processes,
                            Limits(tasks[k].policy).max_processes)

---------------------------------------------------------------------------
(* The request of a run in flight *)

RunCalls(ts) == SelectSeq(ts, LAMBDA t : t.kind = "run_sandbox")

\* C38: the request of a run_sandbox call is built from the profile as it is
\* when RunSandbox is handled and stays that until the call resolves; while
\* the call is in flight, an edit of the selected profile and a deletion act
\* on the collection as they always do; the completion changes no profile.
C38_RunSendsSnapshot ==
    [][/\ (last'.type = "RunSandbox" /\ Issues) =>
             LET sent == tasks'[Len(tasks')]
             IN  /\ sent.policy = profiles[last'.profile_idx + 1]
                 /\ WirePolicy(sent) = convert_policy_to_proto(profiles[last'.profile_idx + 1])
       /\ (RunCalls(tasks) # <<>> /\ last'.type # "resolved") => RunCalls(tasks') = RunCalls(tasks)
       /\ (InFlight("run_sandbox") /\ last'.type = "NetworkCapabilityChanged"
              /\ IsSome(SelectedProfile)) =>
             /\ profiles'[Unwrap(selected_profile) + 1].capabilities.network = last'.capability
             /\ Len(profiles') = Len(profiles)
       /\ (InFlight("run_sandbox") /\ last'.type = "DeleteProfile"
              /\ last'.index < Len(profiles)) =>
             profiles' = VecRemove(profiles, last'.index)
       /\ last'.type = "RunSandboxResult" => profiles' = profiles]_vars

\* the second profile was run, then edited, then the first was deleted: the
\* call in flight still carries the second profile as it was when dispatched
C38_Witness ==
    /\ last.type = "DeleteProfile"
    /\ Len(profiles) = 1
    /\ profiles[1].capabilities.network = "Full"
    /\ RunCalls(tasks) # <<>>
    /\ RunCalls(tasks)[1].policy.name = profiles[1].name
    /\ RunCalls(tasks)[1].policy.capabilities.network = "Disabled"
    /\ Unwrap(WirePolicy(RunCalls(tasks)[1]).capabilities).network # "Full"

---------------------------------------------------------------------------
(* A run request for a profile that is not there *)

NoSuchProfile(message) == message.type = "RunSandbox" /\ message.profile_idx >= Len(profiles)

\* C39: RunSandbox with an index outside the collection issues no call and
\* leaves the client, the loading indicator and everything else but the
\* record of the message as they were; with the client present the indicator
\* is Idle, and a StopSandbox or an in-range RunSandbox that follows issues
\* its call.
C39_NoProfileNoCall ==
    [][/\ NoSuchProfile(last') =>
             /\ UNCHANGED <<tasks, queue, grpc_client, loading_state, profiles,
                            selected_profile, daemon_status, run_history>>
             /\ IsSome(grpc_client) => loading_state' = "Idle"
       /\ (NoSuchProfile(last) /\ IsSome(grpc_client)) =>
             /\ last'.type = "StopSandbox" => Issues /\ tasks'[Len(tasks')].kind = "stop_sandbox"
             /\ (last'.type = "RunSandbox" /\ last'.profile_idx < Len(profiles)) =>
                   Issues /\ tasks'[Len(tasks')].kind = "run_sandbox"]_vars

\* a run was asked for a second profile when there is one, the client present:
\* nothing is in flight, the client is there and the indicator is Idle
C39_Witness ==
    /\ last.type = "RunSandbox"
    /\ Len(profiles) = 1
    /\ last.profile_idx = 1
    /\ grpc_client = Some(Client)
    /\ loading_state = "Idle"
    /\ tasks = <<>>
    /\ queue = <<>>

====
